---- MODULE Spec2Model ----
(***************************************************************************)
(* A model of the instanced-3D-model tile content provider                 *)
(* (Source/Scene/Instanced3DModel3DTileContentProvider.js): the binary     *)
(* tile decoder, the content's loading state machine and its two           *)
(* notifications, and of the globe surface tile provider                   *)
(* (Source/Scene/GlobeSurfaceTileProvider.js): its frame protocol, its     *)
(* draw-command pool and its imagery layer handlers.                       *)
(*                                                                         *)
(* A buffer is a sequence of bytes (0..255) addressed from offset 0.  A    *)
(* double is kept as its 8-byte little-endian bit pattern.                 *)
(***************************************************************************)
EXTENDS Integers, Sequences, FiniteSets, TLC

VARIABLES content, destroyed, inflight, admitted, declined,
          pendingCollections, thrown, decodeInput,
          returned, released, allocatedFeatures

\* The globe surface tile provider, the imagery layer collection and the
\* quadtree tiles it works on, the frame's output command list, the tile
\* imagery whose resources the last step freed, and the driver of the frames.
VARIABLES provider, imageryLayers, tiles, commandList, freedResources, driver

contentVars == <<content, destroyed, inflight, admitted, declined,
                 pendingCollections, thrown, decodeInput,
                 returned, released, allocatedFeatures>>

surfaceVars == <<provider, imageryLayers, tiles, commandList, freedResources,
                 driver>>

\* The question the quadtree driver asks the surface provider about a
\* tile, with the answer once it is given.
VARIABLES query

vars == <<contentVars, surfaceVars, query>>

\* ------------------------------------------------------------------ bounds

\* Requests the scheduler admits over the life of one content.
MaxRequests == 2
\* Requests the scheduler declines over the life of one content.
MaxDeclined == 1
\* update() calls pumped into one collaborator object.
MaxUpdates == 2
\* Instance records in an input tile.
MaxInstances == 2
\* Frames the quadtree driver begins.
MaxFrames == 3
\* Texture image units of the rendering context.
MaxTextureUnits == 2
\* Operations of the application on the imagery layer collection.
MaxLayerOps == 3

\* Camera coordinates range over -MaxCoordinate..MaxCoordinate.
MaxCoordinate == 2

\* ------------------------------------------------- typed-array primitives

sizeOfUint16 == 2
sizeOfUint32 == 4
sizeOfFloat64 == 8

\* undefined, where an object may stand; every optional value is a record.
Undefined == [undefined |-> TRUE]
\* No exception.
NoError == "none"

\* The bytes [byteOffset, byteOffset + length) of a buffer.
Bytes(buffer, byteOffset, length) ==
    SubSeq(buffer, byteOffset + 1, byteOffset + length)

\* A typed-array or DataView access stays inside the buffer.
InRange(buffer, byteOffset, length) ==
    byteOffset + length <= Len(buffer)

\* DataView.getUint32(byteOffset, true): little-endian.
getUint32(view, byteOffset) ==
    view[byteOffset + 1] + 256 * view[byteOffset + 2]
        + 65536 * view[byteOffset + 3] + 16777216 * view[byteOffset + 4]

\* DataView.getUint16(byteOffset, true): little-endian.
getUint16(view, byteOffset) ==
    view[byteOffset + 1] + 256 * view[byteOffset + 2]

\* DataView.getFloat64(byteOffset, true): the double, as its bit pattern.
getFloat64(view, byteOffset) ==
    Bytes(view, byteOffset, sizeOfFloat64)

\* getMagic: the four bytes at byteOffset as a string of char codes.
getMagic(uint8Array, byteOffset) ==
    Bytes(uint8Array, byteOffset, 4)

\* getStringFromTypedArray: one char code per byte.
getStringFromTypedArray(uint8Array, byteOffset, length) ==
    Bytes(uint8Array, byteOffset, length)

\* Char codes of the strings the decoder compares against or parses.
Str_i3dm == <<105, 51, 100, 109>>
Str_b3dm == <<98, 51, 100, 109>>
Str_EmptyObject == <<123, 125>>
Str_ObjectA == <<123, 34, 97, 34, 58, 49, 125>>
Str_OpenBrace == <<123>>

\* JSON.parse on the batch-table texts the inputs carry: "{}" and {"a":1}
\* parse to an object (kept as its set of property names); any other text
\* of the inputs is a SyntaxError.
JSONParse(text) ==
    IF text = Str_EmptyObject THEN [ok |-> TRUE, value |-> [properties |-> {}]]
    ELSE IF text = Str_ObjectA THEN [ok |-> TRUE, value |-> [properties |-> {"a"}]]
    ELSE [ok |-> FALSE, value |-> Undefined]

\* ------------------------------------------------------------ the content

\* when.defer(): a pending deferred.
Deferred == [status |-> "pending", value |-> "undefined"]

\* deferred.resolve(value): settles a pending deferred; ignored otherwise.
Resolve(deferred, value) ==
    IF deferred.status = "pending"
    THEN [status |-> "resolved", value |-> value]
    ELSE deferred

\* deferred.reject(reason): settles a pending deferred; ignored otherwise.
Reject(deferred, reason) ==
    IF deferred.status = "pending"
    THEN [status |-> "rejected", value |-> reason]
    ELSE deferred

\* The tile and tileset fields the content reads.
TileUrl == [href |-> "tile.i3dm"]
TilesetBaseUrl == [href |-> "tileset/"]
TileBoundingVolume == "contentBoundingVolume"

\* The constructor.
Instanced3DModel3DTileContentProvider ==
    [ _modelInstanceCollection |-> Undefined,
      _url                     |-> TileUrl,
      state                    |-> "UNLOADED",
      processingPromise        |-> Deferred,
      readyPromise             |-> Deferred,
      _batchTableResources     |-> Undefined,
      _features                |-> Undefined ]

\* new Cesium3DTileBatchTableResources(content, featuresLength)
Cesium3DTileBatchTableResources(featuresLength) ==
    [ featuresLength |-> featuresLength,
      batchTable     |-> Undefined,
      updates        |-> 0 ]

\* new ModelInstanceCollection(options); it shares the content's
\* batch-table resources object, which the model keeps in the content only.
ModelInstanceCollection(options) ==
    [ instances      |-> options.instances,
      length         |-> Len(options.instances),
      boundingVolume |-> options.boundingVolume,
      cull           |-> options.cull,
      url            |-> options.url,
      gltf           |-> options.gltf,
      basePath       |-> options.basePath,
      updates        |-> 0 ]

\* getAbsoluteUri(relative, base)
getAbsoluteUri(relative, base) == [base |-> base, relative |-> relative]

\* Cartesian3.fromRadians on WGS84 followed by
\* Transforms.eastNorthUpToFixedFrame: the placement at (lon, lat, height).
eastNorthUpToFixedFrame(longitude, latitude, height) ==
    <<"ENU", longitude, latitude, height>>

\* ------------------------------------------------------------ the decoder

ErrMagic == "DeveloperError: Invalid Instanced 3D Model. Expected magic=i3dm"
ErrVersion == "DeveloperError: Only Instanced 3D Model version 1 is supported"
ErrGltfFormat == "DeveloperError: Only glTF format 0 (uri) or 1 (embedded) are supported"
ErrSyntax == "SyntaxError"
ErrRange == "RangeError"
ErrType == "TypeError"
ErrDestroyed == "tileset is destroyed"

\* initialize() leaves by an exception: the content as it is at the throw.
Throw(c, error) == [content |-> c, thrown |-> error, created |-> FALSE]

\* The magic check of initialize().
validMagic(magic) == magic = Str_i3dm

\* The version check of initialize().
supportedVersion(version) == version = 1

\* The glTF format check of initialize().
supportedGltfFormat_Unchecked(gltfFormat) == TRUE

supportedGltfFormat(gltfFormat) == ~((gltfFormat # 0) /\ (gltfFormat # 1))

\* Bytes of one instance record.
instanceByteLength(hasBatchTable) ==
    sizeOfFloat64 * 2 + (IF hasBatchTable THEN sizeOfUint16 ELSE 0)

\* The batch id of record i, whose batch id field (if any) is at byteOffset.
instanceBatchId_Index(instancesView, hasBatchTable, i, byteOffset) == i

instanceBatchId(instancesView, hasBatchTable, i, byteOffset) ==
    IF hasBatchTable THEN getUint16(instancesView, byteOffset) ELSE i

\* The loop over the instance records: record i (from 0) is read at the
\* running byteOffset and stored as instances[i] (here at index i + 1).
RECURSIVE readInstances(_, _, _, _, _, _)
readInstances(instancesView, instancesLength, hasBatchTable, i, byteOffset, instances) ==
    IF ~(i < instancesLength) THEN instances
    ELSE LET longitude == getFloat64(instancesView, byteOffset)
             latOffset == byteOffset + sizeOfFloat64
             latitude  == getFloat64(instancesView, latOffset)
             idOffset  == latOffset + sizeOfFloat64
             height    == 0
             batchId   == instanceBatchId(instancesView, hasBatchTable, i, idOffset)
             next      == IF hasBatchTable THEN idOffset + sizeOfUint16 ELSE idOffset
         IN readInstances(instancesView, instancesLength, hasBatchTable, i + 1, next,
                Append(instances,
                       [ modelMatrix |-> eastNorthUpToFixedFrame(longitude, latitude, height),
                         batchId     |-> batchId ]))

\* initialize(), once the instance collection is constructed: the content
\* keeps it, enters PROCESSING and resolves the processing notification.
enterProcessing_ResolveLater(c, modelInstanceCollection) ==
    [c EXCEPT !._modelInstanceCollection = modelInstanceCollection,
              !.state = "PROCESSING"]

enterProcessing(c, modelInstanceCollection) ==
    [c EXCEPT !._modelInstanceCollection = modelInstanceCollection,
              !.state = "PROCESSING",
              !.processingPromise = Resolve(@, "content")]

\* initialize() from the creation of the batch-table resources on: the
\* header fields have been read and validated, byteOffset is at the batch
\* table.
initializeBody(c, arrayBuffer, byteOffset, header) ==
    LET uint8Array == arrayBuffer
        batchTableByteLength == header.batchTableByteLength
        gltfByteLength == header.gltfByteLength
        gltfFormat == header.gltfFormat
        instancesLength == header.instancesLength
        batchTableResources == Cesium3DTileBatchTableResources(instancesLength)
        c1 == [c EXCEPT !._batchTableResources = batchTableResources]
        hasBatchTable == batchTableByteLength > 0
    IN
    IF hasBatchTable /\ ~InRange(uint8Array, byteOffset, batchTableByteLength)
    THEN Throw(c1, ErrRange)
    ELSE
    LET parsed == IF hasBatchTable
                  THEN JSONParse(getStringFromTypedArray(uint8Array, byteOffset,
                                                         batchTableByteLength))
                  ELSE [ok |-> TRUE, value |-> Undefined]
    IN
    IF ~parsed.ok THEN Throw(c1, ErrSyntax)
    ELSE
    LET c2 == [c1 EXCEPT !._batchTableResources.batchTable = parsed.value]
        gltfOffset == IF hasBatchTable THEN byteOffset + batchTableByteLength
                      ELSE byteOffset
    IN
    IF ~InRange(arrayBuffer, gltfOffset, gltfByteLength) THEN Throw(c2, ErrRange)
    ELSE
    LET gltfView == Bytes(arrayBuffer, gltfOffset, gltfByteLength)
        instancesOffset == gltfOffset + gltfByteLength
        instancesByteLength == instancesLength * instanceByteLength(hasBatchTable)
    IN
    IF ~InRange(arrayBuffer, instancesOffset, instancesByteLength)
    THEN Throw(c2, ErrRange)
    ELSE
    LET instancesView == Bytes(arrayBuffer, instancesOffset, instancesByteLength)
        collectionOptions ==
            [ instances      |-> readInstances(instancesView, instancesLength,
                                               hasBatchTable, 0, 0, <<>>),
              boundingVolume |-> TileBoundingVolume,
              cull           |-> FALSE,
              url            |-> IF gltfFormat = 0
                                 THEN getAbsoluteUri(getStringFromTypedArray(gltfView, 0,
                                                         Len(gltfView)), TilesetBaseUrl)
                                 ELSE Undefined,
              gltf           |-> IF gltfFormat = 0 THEN Undefined ELSE [bytes |-> gltfView],
              basePath       |-> IF gltfFormat = 0 THEN Undefined ELSE c._url ]
        modelInstanceCollection == ModelInstanceCollection(collectionOptions)
    IN
    [ content |-> enterProcessing(c2, modelInstanceCollection),
      thrown  |-> NoError,
      created |-> TRUE ]

\* initialize(arrayBuffer, byteOffset): the result is the content after the
\* call, the exception it leaves by (if any), and whether it created an
\* instance collection and registered the continuations on its readiness.
initialize(c, arrayBuffer, byteOffsetArg) ==
    LET uint8Array == arrayBuffer
        view == arrayBuffer
        magic == getMagic(uint8Array, byteOffsetArg)
        versionOffset == byteOffsetArg + sizeOfUint32
        lengthsOffset == versionOffset + sizeOfUint32 + sizeOfUint32
    IN
    IF ~validMagic(magic) THEN Throw(c, ErrMagic)
    ELSE IF ~InRange(view, versionOffset, sizeOfUint32) THEN Throw(c, ErrRange)
    ELSE IF ~supportedVersion(getUint32(view, versionOffset)) THEN Throw(c, ErrVersion)
    ELSE IF ~InRange(view, lengthsOffset, 4 * sizeOfUint32) THEN Throw(c, ErrRange)
    ELSE
    LET batchTableByteLength == getUint32(view, lengthsOffset)
        gltfByteLength == getUint32(view, lengthsOffset + sizeOfUint32)
        gltfFormat == getUint32(view, lengthsOffset + 2 * sizeOfUint32)
        instancesLength == getUint32(view, lengthsOffset + 3 * sizeOfUint32)
        byteOffset == lengthsOffset + 4 * sizeOfUint32
    IN
    IF ~supportedGltfFormat(gltfFormat) THEN Throw(c, ErrGltfFormat)
    ELSE initializeBody(c, arrayBuffer, byteOffset,
                        [ batchTableByteLength |-> batchTableByteLength,
                          gltfByteLength       |-> gltfByteLength,
                          gltfFormat           |-> gltfFormat,
                          instancesLength      |-> instancesLength ])

\* ------------------------------------------------------------- the inputs

\* Little-endian encodings.
Uint32LE(n) ==
    <<n % 256, (n \div 256) % 256, (n \div 65536) % 256, (n \div 16777216) % 256>>

Uint16LE(n) == <<n % 256, (n \div 256) % 256>>

\* Bit patterns of the doubles 0.0, 0.5 and 1.0.
Double_0 == <<0, 0, 0, 0, 0, 0, 0, 0>>
Double_Half == <<0, 0, 0, 0, 0, 0, 224, 63>>
Double_1 == <<0, 0, 0, 0, 0, 0, 240, 63>>

\* The instance records of the input tiles; 258 has two non-zero bytes.
InputRecords ==
    { [longitude |-> Double_1, latitude |-> Double_Half, batchId |-> 1],
      [longitude |-> Double_Half, latitude |-> Double_0, batchId |-> 258] }

\* Sequences of at most n input records.
RECURSIVE RecordSeqs(_)
RecordSeqs(n) ==
    IF n = 0 THEN {<<>>}
    ELSE LET shorter == RecordSeqs(n - 1)
         IN shorter \cup {Append(s, r) : s \in shorter, r \in InputRecords}

\* The batch-table sections of the input tiles: none, {"a":1}, and "{".
InputBatchTables == {<<>>, Str_ObjectA, Str_OpenBrace}

\* The glTF section of an input tile of a given format: a one-character URI
\* for format 0, one opaque byte otherwise.
InputGltf(gltfFormat) == IF gltfFormat = 0 THEN <<117>> ELSE <<7>>

\* (magic, version, glTF format) of the input tiles: two valid headers, one
\* header per single fault, and one with every fault.
InputHeaders ==
    { <<Str_i3dm, 1, 0>>, <<Str_i3dm, 1, 1>>,
      <<Str_b3dm, 1, 0>>, <<Str_i3dm, 2, 1>>, <<Str_i3dm, 1, 2>>,
      <<Str_b3dm, 2, 2>> }

ValidHeader(h) == h[1] = Str_i3dm /\ h[2] = 1 /\ h[3] \in {0, 1}

\* An input tile: its header fields, sections and records, and how many
\* instances more than it carries its header declares.
InputTiles ==
    { [ magic |-> h[1], version |-> h[2], gltfFormat |-> h[3],
        batchTable |-> bt, gltf |-> InputGltf(h[3]),
        records |-> recs, declared |-> Len(recs) + extra ] :
      h \in InputHeaders, bt \in InputBatchTables,
      recs \in RecordSeqs(MaxInstances), extra \in {0, 1} }

\* The tiles a faulty header is tried with carry at most one record.
DecodeTiles ==
    { d \in InputTiles :
        ValidHeader(<<d.magic, d.version, d.gltfFormat>>) \/ Len(d.records) <= 1 }

\* The tiles the scheduler delivers carry at most one record; those with a
\* faulty header or an embedded glTF carry no batch table and declare the
\* records they carry.
DeliveredTiles ==
    { d \in InputTiles :
        /\ Len(d.records) <= 1
        /\ (~ValidHeader(<<d.magic, d.version, d.gltfFormat>>) \/ d.gltfFormat = 1)
              => (d.batchTable = <<>> /\ d.declared = Len(d.records)) }

\* The bytes of the records, with the batch id field iff there is a batch table.
RECURSIVE EncodeRecords(_, _)
EncodeRecords(recs, hasBatchTable) ==
    IF recs = <<>> THEN <<>>
    ELSE Head(recs).longitude \o Head(recs).latitude
           \o (IF hasBatchTable THEN Uint16LE(Head(recs).batchId) ELSE <<>>)
           \o EncodeRecords(Tail(recs), hasBatchTable)

\* The bytes of an input tile in the wire layout.
Encode(d) ==
    LET body == d.batchTable \o d.gltf
                  \o EncodeRecords(d.records, Len(d.batchTable) > 0)
    IN d.magic \o Uint32LE(d.version) \o Uint32LE(28 + Len(body))
         \o Uint32LE(Len(d.batchTable)) \o Uint32LE(Len(d.gltf))
         \o Uint32LE(d.gltfFormat) \o Uint32LE(d.declared) \o body

\* A tile placed at byteOffset in a larger buffer (as in a composite tile).
Padding(byteOffset) == [i \in 1..byteOffset |-> 255]

InputByteOffsets == {0, 4}

\* Failures the scheduler's transport and the instance collection report.
TransportErrors == {"RequestErrorEvent"}
CollectionErrors == {"glTF load failed"}

\* ------------------------------------------------------------ operations

\* The content just constructed.
ContentUnused ==
    /\ content = Instanced3DModel3DTileContentProvider
    /\ destroyed = FALSE
    /\ inflight = 0
    /\ admitted = 0
    /\ declined = 0
    /\ pendingCollections = 0
    /\ thrown = NoError
    /\ decodeInput = Undefined
    /\ returned = Undefined
    /\ released = [collection |-> 0, batchTableResources |-> 0]
    /\ allocatedFeatures = 0

\* isDestroyed(): false until destroyObject() has run on the content.
isDestroyed == destroyed

\* request(): the handler of a delivery of bytes.  A rejection it returns
\* and an exception it throws both reject the derived promise.
requestThen_NoDestroyedCheck(c, arrayBuffer) ==
    initialize(c, arrayBuffer, 0)

requestThen_ReturnSilently(c, arrayBuffer) ==
    IF isDestroyed
    THEN [content |-> c, thrown |-> NoError, created |-> FALSE]
    ELSE initialize(c, arrayBuffer, 0)

requestThen(c, arrayBuffer) ==
    IF isDestroyed
    THEN [content |-> c, thrown |-> ErrDestroyed, created |-> FALSE]
    ELSE initialize(c, arrayBuffer, 0)

\* request(): the handler of a rejection.
requestOtherwise_NewPromise(c, error) ==
    [c EXCEPT !.state = "FAILED",
              !.readyPromise = [status |-> "rejected", value |-> error]]

requestOtherwise(c, error) ==
    [c EXCEPT !.state = "FAILED", !.readyPromise = Reject(@, error)]

\* request(): promise.then(...).otherwise(...) on a delivery of bytes.
requestDelivered(c, arrayBuffer) ==
    LET r == requestThen(c, arrayBuffer)
    IN IF r.thrown # NoError
       THEN [ content |-> requestOtherwise(r.content, r.thrown),
              thrown  |-> NoError,
              created |-> r.created ]
       ELSE r

\* request(), with the scheduler's answer: a promise (admit) or undefined.
request_LoadingBeforeCheck(admit) ==
    /\ IF admit
       THEN /\ admitted < MaxRequests
            /\ admitted' = admitted + 1
            /\ inflight' = inflight + 1
            /\ UNCHANGED declined
       ELSE /\ declined < MaxDeclined
            /\ declined' = declined + 1
            /\ UNCHANGED <<inflight, admitted>>
    /\ content' = [content EXCEPT !.state = "LOADING"]
    /\ thrown' = NoError
    /\ UNCHANGED <<destroyed, pendingCollections, decodeInput,
                   released, allocatedFeatures>>
    /\ returned' = Undefined
    /\ UNCHANGED <<surfaceVars, query>>

request(admit) ==
    /\ IF admit
       THEN /\ admitted < MaxRequests
            /\ admitted' = admitted + 1
            /\ inflight' = inflight + 1
            /\ content' = [content EXCEPT !.state = "LOADING"]
            /\ UNCHANGED declined
       ELSE /\ declined < MaxDeclined
            /\ declined' = declined + 1
            /\ UNCHANGED <<content, inflight, admitted>>
    /\ thrown' = NoError
    /\ UNCHANGED <<destroyed, pendingCollections, decodeInput,
                   released, allocatedFeatures>>
    /\ returned' = Undefined
    /\ UNCHANGED <<surfaceVars, query>>

\* The scheduler delivers the bytes of an admitted request.
deliver(arrayBuffer) ==
    /\ inflight > 0
    /\ LET r == requestDelivered(content, arrayBuffer)
       IN /\ content' = r.content
          /\ thrown' = r.thrown
          /\ pendingCollections' = pendingCollections + (IF r.created THEN 1 ELSE 0)
    /\ inflight' = inflight - 1
    /\ UNCHANGED <<destroyed, admitted, declined, decodeInput,
                   released, allocatedFeatures>>
    /\ returned' = Undefined
    /\ UNCHANGED <<surfaceVars, query>>

\* The scheduler reports the failure of an admitted request.
deliverFailure(error) ==
    /\ inflight > 0
    /\ content' = requestOtherwise(content, error)
    /\ thrown' = NoError
    /\ inflight' = inflight - 1
    /\ UNCHANGED <<destroyed, admitted, declined, pendingCollections,
                   decodeInput,
                   released, allocatedFeatures>>
    /\ returned' = Undefined
    /\ UNCHANGED <<surfaceVars, query>>

\* initialize(): the handler of the instance collection's readiness.
collectionReady_UnlessDestroyed ==
    /\ pendingCollections > 0
    /\ content' = IF isDestroyed THEN content
                  ELSE [content EXCEPT !.state = "READY",
                                       !.readyPromise = Resolve(@, "content")]
    /\ thrown' = NoError
    /\ pendingCollections' = pendingCollections - 1
    /\ UNCHANGED <<destroyed, inflight, admitted, declined, decodeInput,
                   released, allocatedFeatures>>
    /\ returned' = Undefined
    /\ UNCHANGED <<surfaceVars, query>>

collectionReady ==
    /\ pendingCollections > 0
    /\ content' = [content EXCEPT !.state = "READY",
                                  !.readyPromise = Resolve(@, "content")]
    /\ thrown' = NoError
    /\ pendingCollections' = pendingCollections - 1
    /\ UNCHANGED <<destroyed, inflight, admitted, declined, decodeInput,
                   released, allocatedFeatures>>
    /\ returned' = Undefined
    /\ UNCHANGED <<surfaceVars, query>>

\* initialize(): the handler of the instance collection's failure.
collectionError(error) ==
    /\ pendingCollections > 0
    /\ content' = [content EXCEPT !.state = "FAILED",
                                  !.readyPromise = Reject(@, error)]
    /\ thrown' = NoError
    /\ pendingCollections' = pendingCollections - 1
    /\ UNCHANGED <<destroyed, inflight, admitted, declined, decodeInput,
                   released, allocatedFeatures>>
    /\ returned' = Undefined
    /\ UNCHANGED <<surfaceVars, query>>

\* update(): pumps the batch-table resources, then the instance collection;
\* a call on an undefined collaborator is a TypeError.
update_BatchTableOnly ==
    /\ content._batchTableResources # Undefined
         => content._batchTableResources.updates < MaxUpdates
    /\ IF content._batchTableResources = Undefined
       THEN /\ thrown' = ErrType
            /\ UNCHANGED content
       ELSE IF content._modelInstanceCollection = Undefined
       THEN /\ thrown' = ErrType
            /\ content' = [content EXCEPT !._batchTableResources.updates = @ + 1]
       ELSE /\ thrown' = NoError
            /\ content' = [content EXCEPT !._batchTableResources.updates = @ + 1]
    /\ UNCHANGED <<destroyed, inflight, admitted, declined, pendingCollections,
                   decodeInput,
                   released, allocatedFeatures>>
    /\ returned' = Undefined
    /\ UNCHANGED <<surfaceVars, query>>

update ==
    /\ content._batchTableResources # Undefined
         => content._batchTableResources.updates < MaxUpdates
    /\ IF content._batchTableResources = Undefined
       THEN /\ thrown' = ErrType
            /\ UNCHANGED content
       ELSE IF content._modelInstanceCollection = Undefined
       THEN /\ thrown' = ErrType
            /\ content' = [content EXCEPT !._batchTableResources.updates = @ + 1]
       ELSE /\ thrown' = NoError
            /\ content' = [content EXCEPT !._batchTableResources.updates = @ + 1,
                                          !._modelInstanceCollection.updates = @ + 1]
    /\ UNCHANGED <<destroyed, inflight, admitted, declined, pendingCollections,
                   decodeInput,
                   released, allocatedFeatures>>
    /\ returned' = Undefined
    /\ UNCHANGED <<surfaceVars, query>>

\* destroyObject(content): from then on isDestroyed() is true.
destroyObject == destroyed' = TRUE

\* destroy(): each collaborator still held is destroyed (released) and its
\* field becomes undefined, the value its destroy() returns; a field that
\* is already undefined is left alone.
destroy_KeepsReferences ==
    /\ released' =
         [ collection |-> released.collection
              + (IF content._modelInstanceCollection # Undefined THEN 1 ELSE 0),
           batchTableResources |-> released.batchTableResources
              + (IF content._batchTableResources # Undefined THEN 1 ELSE 0) ]
    /\ UNCHANGED content
    /\ destroyObject
    /\ thrown' = NoError
    /\ UNCHANGED <<inflight, admitted, declined, pendingCollections,
                   decodeInput, allocatedFeatures>>
    /\ returned' = Undefined
    /\ UNCHANGED <<surfaceVars, query>>

destroy ==
    /\ released' =
         [ collection |-> released.collection
              + (IF content._modelInstanceCollection # Undefined THEN 1 ELSE 0),
           batchTableResources |-> released.batchTableResources
              + (IF content._batchTableResources # Undefined THEN 1 ELSE 0) ]
    /\ content' = [content EXCEPT !._modelInstanceCollection = Undefined,
                                  !._batchTableResources = Undefined]
    /\ destroyObject
    /\ thrown' = NoError
    /\ UNCHANGED <<inflight, admitted, declined, pendingCollections,
                   decodeInput, allocatedFeatures>>
    /\ returned' = Undefined
    /\ UNCHANGED <<surfaceVars, query>>

\* A direct call of initialize(arrayBuffer, byteOffset) on a tile placed at
\* byteOffset; the exception it leaves by reaches the caller.
initializeCall(d, byteOffset) ==
    /\ decodeInput = Undefined
    /\ LET r == initialize(content, Padding(byteOffset) \o Encode(d), byteOffset)
       IN /\ content' = r.content
          /\ thrown' = r.thrown
          /\ pendingCollections' = pendingCollections + (IF r.created THEN 1 ELSE 0)
    /\ decodeInput' = [tile |-> d, byteOffset |-> byteOffset]
    /\ UNCHANGED <<destroyed, inflight, admitted, declined,
                   released, allocatedFeatures>>
    /\ returned' = Undefined
    /\ UNCHANGED <<surfaceVars, query>>

\* ------------------------------------------------------ feature accessor

ErrBatchId == "DeveloperError: batchId is required and between zero and featuresLength - 1"

\* defined(value)
defined(value) == value # Undefined

\* A batchId argument that is a number.
Number(n) == [number |-> n]

\* The batchId arguments getFeature() is called with: undefined, -1, and
\* 0 up to the largest instance count of an input tile.
InputBatchIds == {Undefined} \cup {Number(n) : n \in -1..MaxInstances}

\* The property names hasProperty() is called with.
InputNames == {"a", "b"}

\* new Cesium3DTileFeature(tileset, batchTableResources, batchId): a new
\* object, told from every other by its handle.
Cesium3DTileFeature(handle, batchId) == [handle |-> handle, batchId |-> batchId]

\* createFeatures(content), on a content that holds an instance
\* collection; allocated counts the feature objects created so far.
createFeatures(c, allocated) ==
    LET featuresLength == c._modelInstanceCollection.length
    IN IF ~defined(c._features) /\ (featuresLength > 0)
       THEN [ content |->
                [c EXCEPT !._features =
                    [items |-> [i \in 1..featuresLength |->
                                  Cesium3DTileFeature(allocated + i, i - 1)]]],
              allocated |-> allocated + featuresLength ]
       ELSE [content |-> c, allocated |-> allocated]

\* The argument check of getFeature().
validBatchId_NoUpperBound(batchId, featuresLength) ==
    ~(~defined(batchId) \/ (batchId.number < 0))

validBatchId(batchId, featuresLength) ==
    ~(~defined(batchId) \/ (batchId.number < 0) \/ (batchId.number >= featuresLength))

\* array[index] of a JavaScript array: undefined outside 0..length-1.
elementAt(array, index) ==
    IF defined(index) /\ index.number \in 0..(Len(array.items) - 1)
    THEN [feature |-> array.items[index.number + 1]]
    ELSE Undefined

\* getFeature(batchId): reading the length of an undefined instance
\* collection, or an element of an undefined feature array, is a TypeError.
getFeature(batchId) ==
    /\ IF ~defined(content._modelInstanceCollection)
       THEN /\ thrown' = ErrType
            /\ returned' = Undefined
            /\ UNCHANGED <<content, allocatedFeatures>>
       ELSE IF ~validBatchId(batchId, content._modelInstanceCollection.length)
       THEN /\ thrown' = ErrBatchId
            /\ returned' = Undefined
            /\ UNCHANGED <<content, allocatedFeatures>>
       ELSE LET r == createFeatures(content, allocatedFeatures)
            IN /\ content' = r.content
               /\ allocatedFeatures' = r.allocated
               /\ IF defined(r.content._features)
                  THEN /\ thrown' = NoError
                       /\ returned' = elementAt(r.content._features, batchId)
                  ELSE /\ thrown' = ErrType
                       /\ returned' = Undefined
    /\ UNCHANGED <<destroyed, inflight, admitted, declined, pendingCollections,
                   decodeInput, released>>
    /\ UNCHANGED <<surfaceVars, query>>

\* batchTableResources.hasProperty(name): whether the parsed batch table
\* has a property of that name.
batchTableHasProperty(batchTableResources, name) ==
    defined(batchTableResources.batchTable)
      /\ name \in batchTableResources.batchTable.properties

\* hasProperty(name): a call on undefined batch-table resources is a
\* TypeError.
hasProperty_ViaFeatures(name) ==
    /\ IF ~defined(content._batchTableResources)
       THEN /\ thrown' = ErrType
            /\ returned' = Undefined
            /\ UNCHANGED <<content, allocatedFeatures>>
       ELSE /\ thrown' = NoError
            /\ returned' =
                 [answer |-> batchTableHasProperty(content._batchTableResources, name)]
            /\ IF defined(content._modelInstanceCollection)
               THEN LET r == createFeatures(content, allocatedFeatures)
                    IN content' = r.content /\ allocatedFeatures' = r.allocated
               ELSE UNCHANGED <<content, allocatedFeatures>>
    /\ UNCHANGED <<destroyed, inflight, admitted, declined, pendingCollections,
                   decodeInput, released>>
    /\ UNCHANGED <<surfaceVars, query>>

hasProperty(name) ==
    /\ IF ~defined(content._batchTableResources)
       THEN /\ thrown' = ErrType
            /\ returned' = Undefined
       ELSE /\ thrown' = NoError
            /\ returned' =
                 [answer |-> batchTableHasProperty(content._batchTableResources, name)]
    /\ UNCHANGED <<content, destroyed, inflight, admitted, declined,
                   pendingCollections, decodeInput, released, allocatedFeatures>>
    /\ UNCHANGED <<surfaceVars, query>>

\* ------------------------------------------- globe surface tile provider

\* The imagery layers there are, and the quadtree tiles.
LayerIds == {"A", "B", "C"}
TileIds == {"t1", "t2", "t3"}

\* The imagery tiles of one layer that overlap a quadtree tile.
skeletonCount == [t1 |-> 3, t2 |-> 2, t3 |-> 1]

\* new GlobeSurfaceTileProvider(options), over a terrain provider that is
\* ready.
GlobeSurfaceTileProvider ==
    [ _terrainProvider             |-> [ready |-> TRUE],
      _renderState                 |-> Undefined,
      _layerOrderChanged           |-> FALSE,
      _tilesToRenderByTextureCount |-> <<>>,
      _drawCommands                |-> <<>>,
      _uniformMaps                 |-> <<>>,
      _usedDrawCommands            |-> 0 ]

\* ImageryLayer.DEFAULT_BRIGHTNESS, DEFAULT_CONTRAST, DEFAULT_HUE,
\* DEFAULT_SATURATION and DEFAULT_GAMMA.
DEFAULT_BRIGHTNESS == 1
DEFAULT_CONTRAST == 1
DEFAULT_HUE == 0
DEFAULT_SATURATION == 1
DEFAULT_GAMMA == 1

\* A property of a layer is a number, Number(n), or a function of the
\* frame state, the layer and the imagery tile's x, y and level, which is
\* told here by the value it returns for each x.
Function(values) == [function |-> values]

\* An imagery layer constructed with a show flag over an imagery provider
\* that is ready, not yet in a collection; its properties are the defaults.
ImageryLayer(show) ==
    [ imageryProvider |-> [ready |-> TRUE],
      show |-> show, _show |-> show, _layerIndex |-> -1,
      _isBaseLayer |-> FALSE,
      alpha      |-> Number(1),
      brightness |-> Number(DEFAULT_BRIGHTNESS),
      contrast   |-> Number(DEFAULT_CONTRAST),
      hue        |-> Number(DEFAULT_HUE),
      saturation |-> Number(DEFAULT_SATURATION),
      gamma      |-> Number(DEFAULT_GAMMA) ]

\* new ImageryLayerCollection(): no layer in it.
ImageryLayerCollection ==
    [ _layers |-> <<>>, layer |-> [l \in LayerIds |-> ImageryLayer(TRUE)] ]

\* ready: the terrain provider is ready, and so is the imagery provider of
\* the first layer if there is one.
ready(p, il) ==
    /\ p._terrainProvider.ready
    /\ \/ Len(il._layers) = 0
       \/ il.layer[il._layers[1]].imageryProvider.ready

\* The elements of a sequence.
Range(seq) == {seq[i] : i \in 1..Len(seq)}

\* array.splice(start, deleteCount) and array.splice(start, 0, item), with
\* start counted from 0.
spliceOut(array, start, deleteCount) ==
    SubSeq(array, 1, start) \o SubSeq(array, start + deleteCount + 1, Len(array))

spliceIn(array, start, item) ==
    SubSeq(array, 1, start) \o <<item>> \o SubSeq(array, start + 1, Len(array))

\* The collection after its layers' indices and base-layer flags are
\* brought up to date: a layer's index is its position, and the base layer
\* is the first shown layer.
refreshLayers(il) ==
    LET shown == {i \in 1..Len(il._layers) : il.layer[il._layers[i]].show}
    IN [il EXCEPT !.layer =
          [l \in LayerIds |->
             IF \E i \in 1..Len(il._layers) : il._layers[i] = l
             THEN LET i == CHOOSE i \in 1..Len(il._layers) : il._layers[i] = l
                  IN [il.layer[l] EXCEPT
                        !._layerIndex = i - 1,
                        !._isBaseLayer = (i \in shown /\ \A j \in shown : i <= j)]
             ELSE il.layer[l]]]

\* imageryLayers._update(): the indices are brought up to date and the
\* pending show/hide changes are resolved; shownOrHidden lists, in index
\* order, the layers a layerShownOrHidden event is raised for.
layersUpdate(il) ==
    LET refreshed == refreshLayers(il)
        changed == SelectSeq(il._layers,
                             LAMBDA l : il.layer[l].show # il.layer[l]._show)
    IN [ imageryLayers |->
           [refreshed EXCEPT !.layer =
              [l \in LayerIds |-> [refreshed.layer[l] EXCEPT !._show = refreshed.layer[l].show]]],
         shownOrHidden |-> changed ]

\* A TileImagery of a tile for imagery tile x of a layer, as
\* layer._createTileImagerySkeletons() makes it: its imagery is loading.
TileImagery(tile, layer, x) ==
    [ loadingImagery |-> [imageryLayer |-> layer, tile |-> tile, x |-> x,
                          state |-> "TRANSITIONING"],
      readyImagery   |-> Undefined,
      textureTranslationAndScale |-> Undefined ]

\* The TileImagery once its imagery is loaded.
loadedTileImagery(tileImagery) ==
    IF defined(tileImagery.loadingImagery)
    THEN [tileImagery EXCEPT
            !.loadingImagery = Undefined,
            !.readyImagery = [tileImagery.loadingImagery EXCEPT !.state = "READY"]]
    ELSE tileImagery

\* The imagery of a TileImagery that tells its layer: the loading imagery,
\* or else the ready imagery.
imageryOf(tileImagery) ==
    IF defined(tileImagery.loadingImagery) THEN tileImagery.loadingImagery
    ELSE tileImagery.readyImagery

\* layer._createTileImagerySkeletons(tile, terrainProvider): the skeletons
\* are appended to the tile's imagery list.
createTileImagerySkeletons(imagery, tile, layer) ==
    imagery \o [x \in 1..skeletonCount[tile] |-> TileImagery(tile, layer, x)]

\* A quadtree tile that was never loaded.
QuadtreeTile == [state |-> "START", isRenderable |-> FALSE, data |-> Undefined]

\* quadtree.forEachLoadedTile visits the tiles whose loading has begun.
loadedTiles(ts) == {t \in DOMAIN ts : ts[t].state # "START"}

\* _onLayerAdded(layer, index), on the provider, the tiles and the freed
\* resources in s.
onLayerAdded_NoReload(s, layer, index) ==
    IF s.imageryLayers.layer[layer].show
    THEN [s EXCEPT
            !.tiles = [t \in DOMAIN s.tiles |->
                         IF t \in loadedTiles(s.tiles)
                         THEN [s.tiles[t] EXCEPT
                                 !.data.imagery = createTileImagerySkeletons(@, t, layer)]
                         ELSE s.tiles[t]],
            !.provider._layerOrderChanged = TRUE]
    ELSE s

onLayerAdded(s, layer, index) ==
    IF s.imageryLayers.layer[layer].show
    THEN [s EXCEPT
            !.tiles = [t \in DOMAIN s.tiles |->
                         IF t \in loadedTiles(s.tiles)
                         THEN [s.tiles[t] EXCEPT
                                 !.data.imagery = createTileImagerySkeletons(@, t, layer),
                                 !.state = "LOADING"]
                         ELSE s.tiles[t]],
            !.provider._layerOrderChanged = TRUE]
    ELSE s

\* _onLayerRemoved(): the index of the first TileImagery of the layer
\* (-1 if none).
removedStartIndex(tileImageryCollection, layer) ==
    LET hits == {i \in 1..Len(tileImageryCollection) :
                   imageryOf(tileImageryCollection[i]).imageryLayer = layer}
    IN IF hits = {} THEN -1
       ELSE (CHOOSE i \in hits : \A j \in hits : i <= j) - 1

\* _onLayerRemoved(): the TileImagerys freed, those of the layer from
\* startIndex up to the first one of another layer.
removedCount_FirstOnly(tileImageryCollection, layer, startIndex) ==
    IF startIndex = -1 THEN 0 ELSE 1

removedCount(tileImageryCollection, layer, startIndex) ==
    IF startIndex = -1 THEN 0
    ELSE LET len == Len(tileImageryCollection)
             stop == {i \in (startIndex + 1)..len :
                        imageryOf(tileImageryCollection[i]).imageryLayer # layer}
             end == IF stop = {} THEN len + 1
                    ELSE CHOOSE i \in stop : \A j \in stop : i <= j
         IN end - (startIndex + 1)

\* _onLayerRemoved(layer, index)
onLayerRemoved_KeepsRenderable(s, layer, index) ==
    LET visited == loadedTiles(s.tiles)
        run == [t \in visited |->
                  LET startIndex == removedStartIndex(s.tiles[t].data.imagery, layer)
                  IN [ startIndex |-> startIndex,
                       numDestroyed |-> removedCount(s.tiles[t].data.imagery, layer,
                                                     startIndex) ]]
    IN [s EXCEPT
          !.tiles = [t \in DOMAIN s.tiles |->
                       IF t \in visited
                       THEN [s.tiles[t] EXCEPT
                               !.data.imagery =
                                  IF run[t].startIndex # -1
                                  THEN spliceOut(@, run[t].startIndex, run[t].numDestroyed)
                                  ELSE @,
                               !.isRenderable = @]
                       ELSE s.tiles[t]],
          !.freedResources =
             @ \cup UNION {{s.tiles[t].data.imagery[i] :
                       i \in (run[t].startIndex + 1)..(run[t].startIndex + run[t].numDestroyed)} :
                    t \in visited}]

onLayerRemoved(s, layer, index) ==
    LET visited == loadedTiles(s.tiles)
        run == [t \in visited |->
                  LET startIndex == removedStartIndex(s.tiles[t].data.imagery, layer)
                  IN [ startIndex |-> startIndex,
                       numDestroyed |-> removedCount(s.tiles[t].data.imagery, layer,
                                                     startIndex) ]]
    IN [s EXCEPT
          !.tiles = [t \in DOMAIN s.tiles |->
                       IF t \in visited
                       THEN [s.tiles[t] EXCEPT
                               !.data.imagery =
                                  IF run[t].startIndex # -1
                                  THEN spliceOut(@, run[t].startIndex, run[t].numDestroyed)
                                  ELSE @,
                               !.isRenderable =
                                  IF s.imageryLayers.layer[layer]._isBaseLayer
                                  THEN FALSE ELSE @]
                       ELSE s.tiles[t]],
          !.freedResources =
             @ \cup UNION {{s.tiles[t].data.imagery[i] :
                       i \in (run[t].startIndex + 1)..(run[t].startIndex + run[t].numDestroyed)} :
                    t \in visited}]

\* _onLayerMoved(layer, newIndex, oldIndex)
onLayerMoved(s, layer, newIndex, oldIndex) ==
    [s EXCEPT !.provider._layerOrderChanged = TRUE]

\* _onLayerShownOrHidden(layer, index, show)
onLayerShownOrHidden(s, layer, index, show) ==
    IF show THEN onLayerAdded(s, layer, index) ELSE onLayerRemoved(s, layer, index)

\* The state the layer handlers and beginFrame() work on, as one value.
surfaceState ==
    [ provider |-> provider, imageryLayers |-> imageryLayers, tiles |-> tiles,
      freedResources |-> {} ]

\* The layerShownOrHidden events of imageryLayers._update(), delivered in
\* order to _onLayerShownOrHidden.
RECURSIVE raiseShownOrHidden(_, _)
raiseShownOrHidden(s, layers) ==
    IF layers = <<>> THEN s
    ELSE LET layer == Head(layers)
         IN raiseShownOrHidden(
                onLayerShownOrHidden(s, layer, s.imageryLayers.layer[layer]._layerIndex,
                                     s.imageryLayers.layer[layer].show),
                Tail(layers))

\* sortTileImageryByLayerIndex(a, b) < 0, = 0, > 0 as the layer index of a
\* is below, equal to, above that of b.
layerIndexOf(il, tileImagery) == il.layer[imageryOf(tileImagery).imageryLayer]._layerIndex

\* tile.data.imagery.sort(sortTileImageryByLayerIndex): the orders the sort
\* may leave the list in.  The sort need not be stable: TileImagerys of
\* equal layer index come out in any order.
RECURSIVE sortedOrders(_, _)
sortedOrders(il, imagery) ==
    IF imagery = <<>> THEN {<<>>}
    ELSE LET least == {i \in 1..Len(imagery) :
                         \A j \in 1..Len(imagery) :
                            layerIndexOf(il, imagery[i]) <= layerIndexOf(il, imagery[j])}
         IN UNION {{<<imagery[i]>> \o rest :
                      rest \in sortedOrders(il, spliceOut(imagery, i - 1, 1))} :
                   i \in least}

\* quadtree.forEachLoadedTile(tile => tile.data.imagery.sort(...)): the
\* tiles the sorts may leave, those in visit still to be sorted.
RECURSIVE sortEachTile(_, _, _)
sortEachTile(il, ts, visit) ==
    IF visit = {} THEN {ts}
    ELSE LET t == CHOOSE t \in visit : TRUE
         IN UNION {sortEachTile(il, [ts EXCEPT ![t].data.imagery = order],
                                visit \ {t}) :
                   order \in sortedOrders(il, ts[t].data.imagery)}

sortedTiles(il, ts) == sortEachTile(il, ts, loadedTiles(ts))

\* beginFrame(), lines 195-204: the pending layer operations are resolved,
\* then, if the layer order changed, the flag is cleared and the imagery
\* of every loaded tile is sorted.  The result is the set of states the
\* sorts may leave.
beginFrameLayers_FlagFirst(s) ==
    LET changed == s.provider._layerOrderChanged
        u == layersUpdate(s.imageryLayers)
        s1 == raiseShownOrHidden([s EXCEPT !.imageryLayers = u.imageryLayers],
                                 u.shownOrHidden)
    IN IF changed
       THEN { [s1 EXCEPT !.provider._layerOrderChanged = FALSE, !.tiles = ts] :
              ts \in sortedTiles(s1.imageryLayers, s1.tiles) }
       ELSE {s1}

beginFrameLayers(s) ==
    LET u == layersUpdate(s.imageryLayers)
        s1 == raiseShownOrHidden([s EXCEPT !.imageryLayers = u.imageryLayers],
                                 u.shownOrHidden)
    IN IF s1.provider._layerOrderChanged
       THEN { [s1 EXCEPT !.provider._layerOrderChanged = FALSE, !.tiles = ts] :
              ts \in sortedTiles(s1.imageryLayers, s1.tiles) }
       ELSE {s1}

\* beginFrame(), lines 206-214: every list of commands by texture count is
\* emptied and no pooled command is in use.
resetFrame_KeepsLists(p) ==
    [p EXCEPT !._usedDrawCommands = 0]

resetFrame(p) ==
    [p EXCEPT
       !._tilesToRenderByTextureCount =
          [i \in 1..Len(@) |-> IF defined(@[i]) THEN [items |-> <<>>] ELSE @[i]],
       !._usedDrawCommands = 0]

\* renderTile(), lines 415-432: the command and uniform map of this draw,
\* new ones pushed on the pool if every pooled one is in use, else the
\* first pooled ones not in use; the command is owned by the tile.
claimCommand_AlwaysAllocates(p, tile) ==
    [p EXCEPT
       !._drawCommands = Append(@, [owner |-> tile, shaderProgram |-> Undefined]),
       !._uniformMaps = Append(@, [dayTextures |-> <<>>]),
       !._usedDrawCommands = @ + 1]

claimCommand(p, tile) ==
    IF Len(p._drawCommands) <= p._usedDrawCommands
    THEN [p EXCEPT
            !._drawCommands = Append(@, [owner |-> tile, shaderProgram |-> Undefined]),
            !._uniformMaps = Append(@, [dayTextures |-> <<>>]),
            !._usedDrawCommands = @ + 1]
    ELSE [p EXCEPT
            !._drawCommands[p._usedDrawCommands + 1].owner = tile,
            !._usedDrawCommands = @ + 1]

\* renderTile(), lines 458-528: the textures of one draw, taken from the
\* tile's imagery from imageryIndex on until maxTextures are taken or the
\* imagery ends; imagery that is not ready, or of a layer of alpha 0, is
\* passed over.
RECURSIVE dayTextureGroup_OneMore(_, _, _, _, _)
dayTextureGroup_OneMore(il, tileImageryCollection, imageryIndex, maxTextures, dayTextures) ==
    IF ~(Len(dayTextures) <= maxTextures /\ imageryIndex < Len(tileImageryCollection))
    THEN [dayTextures |-> dayTextures, imageryIndex |-> imageryIndex]
    ELSE LET tileImagery == tileImageryCollection[imageryIndex + 1]
             imagery == tileImagery.readyImagery
         IN IF ~defined(imagery) \/ imagery.state # "READY"
                 \/ il.layer[imagery.imageryLayer].alpha = Number(0)
            THEN dayTextureGroup_OneMore(il, tileImageryCollection, imageryIndex + 1,
                                         maxTextures, dayTextures)
            ELSE dayTextureGroup_OneMore(il, tileImageryCollection, imageryIndex + 1,
                                         maxTextures,
                                         Append(dayTextures,
                                                <<imagery.tile, imagery.imageryLayer,
                                                  imagery.x>>))

RECURSIVE dayTextureGroup_TakesLoading(_, _, _, _, _)
dayTextureGroup_TakesLoading(il, tileImageryCollection, imageryIndex, maxTextures, dayTextures) ==
    IF ~(Len(dayTextures) < maxTextures /\ imageryIndex < Len(tileImageryCollection))
    THEN [dayTextures |-> dayTextures, imageryIndex |-> imageryIndex]
    ELSE LET imagery == imageryOf(tileImageryCollection[imageryIndex + 1])
         IN dayTextureGroup_TakesLoading(il, tileImageryCollection, imageryIndex + 1,
                                         maxTextures,
                                         Append(dayTextures,
                                                <<imagery.tile, imagery.imageryLayer,
                                                  imagery.x>>))

RECURSIVE dayTextureGroup(_, _, _, _, _)
dayTextureGroup(il, tileImageryCollection, imageryIndex, maxTextures, dayTextures) ==
    IF ~(Len(dayTextures) < maxTextures /\ imageryIndex < Len(tileImageryCollection))
    THEN [dayTextures |-> dayTextures, imageryIndex |-> imageryIndex]
    ELSE LET tileImagery == tileImageryCollection[imageryIndex + 1]
             imagery == tileImagery.readyImagery
         IN IF ~defined(imagery) \/ imagery.state # "READY"
                 \/ il.layer[imagery.imageryLayer].alpha = Number(0)
            THEN dayTextureGroup(il, tileImageryCollection, imageryIndex + 1,
                                 maxTextures, dayTextures)
            ELSE dayTextureGroup(il, tileImageryCollection, imageryIndex + 1,
                                 maxTextures,
                                 Append(dayTextures,
                                        <<imagery.tile, imagery.imageryLayer, imagery.x>>))

\* renderTile(), lines 476-518: the value of a layer's property for a
\* texture: the property itself, or what it returns if it is a function.
resolve(property, x) ==
    IF "function" \in DOMAIN property THEN property.function[x] ELSE property.number

\* 1.0 / gamma, as the fraction it is.
oneOver(gamma) == [numerator |-> 1, denominator |-> gamma]

\* renderTile(), lines 451-456: the flags of a command before its
\* textures are taken.
noAdjustment ==
    [ applyBrightness |-> FALSE, applyContrast |-> FALSE, applyHue |-> FALSE,
      applySaturation |-> FALSE, applyGamma |-> FALSE, applyAlpha |-> FALSE ]

\* renderTile(), lines 476-518: the flags of a command after the textures
\* of its group are taken, one after the other: each flag is raised by a
\* texture whose value of the property is not the default.
RECURSIVE applyFlags_LastTexture(_, _, _)
applyFlags_LastTexture(il, dayTextures, apply) ==
    IF dayTextures = <<>> THEN apply
    ELSE LET imageryLayer == il.layer[Head(dayTextures)[2]]
             x == Head(dayTextures)[3]
         IN applyFlags_LastTexture(il, Tail(dayTextures),
              [ applyAlpha      |-> resolve(imageryLayer.alpha, x) # 1,
                applyBrightness |-> resolve(imageryLayer.brightness, x) # DEFAULT_BRIGHTNESS,
                applyContrast   |-> resolve(imageryLayer.contrast, x) # DEFAULT_CONTRAST,
                applyHue        |-> resolve(imageryLayer.hue, x) # DEFAULT_HUE,
                applySaturation |-> resolve(imageryLayer.saturation, x) # DEFAULT_SATURATION,
                applyGamma      |-> oneOver(resolve(imageryLayer.gamma, x))
                                      # oneOver(DEFAULT_GAMMA) ])

RECURSIVE applyFlags(_, _, _)
applyFlags(il, dayTextures, apply) ==
    IF dayTextures = <<>> THEN apply
    ELSE LET imageryLayer == il.layer[Head(dayTextures)[2]]
             x == Head(dayTextures)[3]
         IN applyFlags(il, Tail(dayTextures),
              [ applyAlpha      |-> apply.applyAlpha
                                      \/ resolve(imageryLayer.alpha, x) # 1,
                applyBrightness |-> apply.applyBrightness
                                      \/ resolve(imageryLayer.brightness, x)
                                           # DEFAULT_BRIGHTNESS,
                applyContrast   |-> apply.applyContrast
                                      \/ resolve(imageryLayer.contrast, x) # DEFAULT_CONTRAST,
                applyHue        |-> apply.applyHue
                                      \/ resolve(imageryLayer.hue, x) # DEFAULT_HUE,
                applySaturation |-> apply.applySaturation
                                      \/ resolve(imageryLayer.saturation, x)
                                           # DEFAULT_SATURATION,
                applyGamma      |-> apply.applyGamma
                                      \/ oneOver(resolve(imageryLayer.gamma, x))
                                           # oneOver(DEFAULT_GAMMA) ])

\* renderTile(), line 535: getShaderProgram(context, numberOfDayTextures,
\* applyBrightness, applyContrast, applyHue, applySaturation, applyGamma,
\* applyAlpha), told by its arguments.
getShaderProgram(numberOfDayTextures, apply) ==
    [ numberOfDayTextures |-> numberOfDayTextures,
      applyBrightness |-> apply.applyBrightness,
      applyContrast   |-> apply.applyContrast,
      applyHue        |-> apply.applyHue,
      applySaturation |-> apply.applySaturation,
      applyGamma      |-> apply.applyGamma,
      applyAlpha      |-> apply.applyAlpha ]

\* array[index] = value on an array with holes, index counted from 0.
setElement(array, index, value) ==
    [i \in 1..(IF index + 1 > Len(array) THEN index + 1 ELSE Len(array)) |->
       IF i = index + 1 THEN value
       ELSE IF i <= Len(array) THEN array[i] ELSE Undefined]

\* renderTile(), lines 543-546: the command (its index in the pool) is
\* pushed on the list of its texture count.
pushByTextureCount_Replaces(lists, numberOfDayTextures, command) ==
    setElement(lists, numberOfDayTextures, [items |-> <<command>>])

pushByTextureCount(lists, numberOfDayTextures, command) ==
    LET present == numberOfDayTextures < Len(lists)
                     /\ defined(lists[numberOfDayTextures + 1])
        list == IF present THEN lists[numberOfDayTextures + 1] ELSE [items |-> <<>>]
    IN setElement(lists, numberOfDayTextures,
                  [items |-> Append(list.items, command)])

\* renderTile(), lines 409-570: the do-while loop, one draw per turn, from
\* imageryIndex on.
RECURSIVE renderDraws(_, _, _, _, _, _)
renderDraws(p, il, tile, tileImageryCollection, imageryIndex, maxTextures) ==
    LET p1 == claimCommand(p, tile)
        command == p1._usedDrawCommands - 1
        group == dayTextureGroup(il, tileImageryCollection, imageryIndex,
                                 maxTextures, <<>>)
        numberOfDayTextures == Len(group.dayTextures)
        p2 == [p1 EXCEPT
                 !._uniformMaps[command + 1].dayTextures = group.dayTextures,
                 !._drawCommands[command + 1].shaderProgram =
                    getShaderProgram(numberOfDayTextures,
                                     applyFlags(il, group.dayTextures, noAdjustment)),
                 !._tilesToRenderByTextureCount =
                    pushByTextureCount(@, numberOfDayTextures, command)]
    IN IF group.imageryIndex < Len(tileImageryCollection)
       THEN renderDraws(p2, il, tile, tileImageryCollection, group.imageryIndex,
                        maxTextures)
       ELSE p2

\* renderTile(), lines 469-471: the texture translation and scale of a
\* TileImagery is computed when it first gives a texture, and kept.
cacheTranslationAndScale(il, tileImageryCollection) ==
    [i \in 1..Len(tileImageryCollection) |->
       LET tileImagery == tileImageryCollection[i]
           imagery == tileImagery.readyImagery
       IN IF ~defined(imagery) \/ imagery.state # "READY"
               \/ il.layer[imagery.imageryLayer].alpha = Number(0)
               \/ defined(tileImagery.textureTranslationAndScale)
          THEN tileImagery
          ELSE [tileImagery EXCEPT
                  !.textureTranslationAndScale =
                     [tile |-> imagery.tile, imageryLayer |-> imagery.imageryLayer,
                      x |-> imagery.x]]]

\* The order the quadtree driver visits tiles in.
tileOrder == [t1 |-> 1, t2 |-> 2, t3 |-> 3]

\* The driver before its first frame, with the context it renders in; the
\* layer collection notifies each change once.
Driver(maximumTextureImageUnits) ==
    [ context         |-> [maximumTextureImageUnits |-> maximumTextureImageUnits],
      repeats         |-> FALSE,
      notified        |-> {},
      inFrame         |-> FALSE,
      frames          |-> 0,
      layerOps        |-> 0,
      lastRendered    |-> 0,
      poolAtBegin     |-> 0,
      claimedCommands |-> <<>>,
      claimed         |-> <<>>,
      allocated       |-> <<>> ]

\* beginFrame(context, frameState, commandList)
beginFrame ==
    /\ ~driver.inFrame
    /\ driver.frames < MaxFrames
    /\ \E s1 \in beginFrameLayers(surfaceState) :
         /\ provider' = resetFrame(s1.provider)
         /\ imageryLayers' = s1.imageryLayers
         /\ tiles' = s1.tiles
         /\ freedResources' = s1.freedResources
    /\ driver' = [driver EXCEPT !.inFrame = TRUE,
                                !.notified = {},
                                !.frames = @ + 1,
                                !.lastRendered = 0,
                                !.poolAtBegin = Len(provider._drawCommands),
                                !.claimedCommands = <<>>]
    /\ UNCHANGED commandList
    /\ UNCHANGED <<contentVars, query>>

\* renderTile(tile, context, frameState, commandList), on a loaded tile the
\* driver has not passed in this frame.
renderTile(tile) ==
    /\ driver.inFrame
    /\ tile \in loadedTiles(tiles)
    /\ tileOrder[tile] > driver.lastRendered
    /\ LET p0 == IF defined(provider._renderState) THEN provider
                 ELSE [provider EXCEPT
                         !._renderState = [cull |-> TRUE, depthTest |-> TRUE]]
           p1 == renderDraws(p0, imageryLayers, tile, tiles[tile].data.imagery, 0,
                             driver.context.maximumTextureImageUnits)
       IN /\ provider' = p1
          /\ driver' = [driver EXCEPT
                          !.lastRendered = tileOrder[tile],
                          !.claimedCommands =
                             @ \o [i \in 1..(p1._usedDrawCommands - provider._usedDrawCommands)
                                     |-> provider._usedDrawCommands + i - 1]]
    /\ tiles' = [tiles EXCEPT ![tile].data.imagery =
                                 cacheTranslationAndScale(imageryLayers, @)]
    /\ freedResources' = {}
    /\ UNCHANGED <<imageryLayers, commandList>>
    /\ UNCHANGED <<contentVars, query>>

\* The command lists a frame's endFrame() is handed: an empty one, and one
\* that holds a command of another primitive.
InputCommandLists == {<<>>, <<-1>>}

\* The commands of the lists by texture count from index i on, in order.
RECURSIVE commandsByTextureCount(_, _)
commandsByTextureCount(lists, i) ==
    IF i > Len(lists) THEN <<>>
    ELSE (IF defined(lists[i]) THEN lists[i].items ELSE <<>>)
           \o commandsByTextureCount(lists, i + 1)

\* endFrame(context, frameState, commandList)
endFrame(list) ==
    /\ driver.inFrame
    /\ commandList' =
         list \o commandsByTextureCount(provider._tilesToRenderByTextureCount, 1)
    /\ driver' = [driver EXCEPT
                    !.inFrame = FALSE,
                    !.claimed = Append(@, provider._usedDrawCommands),
                    !.allocated = Append(@, Len(provider._drawCommands)
                                              - driver.poolAtBegin)]
    /\ freedResources' = {}
    /\ UNCHANGED <<provider, imageryLayers, tiles>>
    /\ UNCHANGED <<contentVars, query>>

\* loadTile(context, frameState, tile), called in a frame until the tile is
\* loaded: a new tile gets its data and the skeletons of every shown layer,
\* in layer order; a loading tile gets its imagery loaded.
RECURSIVE prepareNewTile(_, _, _, _)
prepareNewTile(il, tile, layers, imagery) ==
    IF layers = <<>> THEN imagery
    ELSE prepareNewTile(il, tile, Tail(layers),
                        IF il.layer[Head(layers)].show
                        THEN createTileImagerySkeletons(imagery, tile, Head(layers))
                        ELSE imagery)

loadTile(tile) ==
    /\ tile \in DOMAIN tiles
    /\ driver.inFrame
    /\ driver.lastRendered = 0
    /\ tiles[tile].state # "DONE"
    /\ LET data == IF defined(tiles[tile].data) THEN tiles[tile].data
                   ELSE [imagery |-> <<>>]
       IN tiles' = [tiles EXCEPT ![tile] =
            IF tiles[tile].state = "START"
            THEN [ state |-> "LOADING",
                   isRenderable |-> FALSE,
                   data |-> [imagery |-> prepareNewTile(imageryLayers, tile,
                                             imageryLayers._layers, data.imagery)] ]
            ELSE [ state |-> "DONE",
                   isRenderable |-> TRUE,
                   data |-> [imagery |-> [i \in 1..Len(data.imagery) |->
                                            loadedTileImagery(data.imagery[i])]] ]]
    /\ freedResources' = {}
    /\ UNCHANGED <<provider, imageryLayers, commandList, driver>>
    /\ UNCHANGED <<contentVars, query>>

\* The terrain provider, or the imagery provider of a layer, finishes its
\* asynchronous start and reports ready.
terrainProviderReady ==
    /\ ~provider._terrainProvider.ready
    /\ provider' = [provider EXCEPT !._terrainProvider.ready = TRUE]
    /\ freedResources' = {}
    /\ UNCHANGED <<imageryLayers, tiles, commandList, driver>>
    /\ UNCHANGED <<contentVars, query>>

imageryProviderReady(layer) ==
    /\ ~imageryLayers.layer[layer].imageryProvider.ready
    /\ imageryLayers' = [imageryLayers EXCEPT !.layer[layer].imageryProvider.ready = TRUE]
    /\ freedResources' = {}
    /\ UNCHANGED <<provider, tiles, commandList, driver>>
    /\ UNCHANGED <<contentVars, query>>

\* The notifications raised since the last beginFrame(), with the one just
\* raised, which a collection that repeats notifications may raise again.
notification(event, layer, index, oldIndex) ==
    IF driver.repeats
    THEN driver.notified
           \cup {[event |-> event, layer |-> layer, index |-> index, oldIndex |-> oldIndex]}
    ELSE {}

\* The state after the layer handlers ran is stored.
storeSurface(s) ==
    /\ provider' = s.provider
    /\ imageryLayers' = s.imageryLayers
    /\ tiles' = s.tiles
    /\ freedResources' = s.freedResources

\* imageryLayers.add(layer, index) of a layer constructed with a show flag:
\* the collection raises layerAdded.
addLayer(layer, index, show) ==
    /\ ~driver.inFrame
    /\ driver.layerOps < MaxLayerOps
    /\ layer \notin Range(imageryLayers._layers)
    /\ index \in 0..Len(imageryLayers._layers)
    /\ LET il == refreshLayers([imageryLayers EXCEPT
                                  !._layers = spliceIn(@, index, layer),
                                  !.layer[layer] = ImageryLayer(show)])
       IN storeSurface(onLayerAdded([surfaceState EXCEPT !.imageryLayers = il],
                                    layer, index))
    /\ driver' = [driver EXCEPT !.layerOps = @ + 1,
                                !.notified = notification("layerAdded", layer, index, index)]
    /\ UNCHANGED commandList
    /\ UNCHANGED <<contentVars, query>>

\* imageryLayers.remove(layer): the collection raises layerRemoved.
removeLayer(layer) ==
    /\ ~driver.inFrame
    /\ driver.layerOps < MaxLayerOps
    /\ layer \in Range(imageryLayers._layers)
    /\ LET index == imageryLayers.layer[layer]._layerIndex
           il == refreshLayers([imageryLayers EXCEPT
                                  !._layers = spliceOut(@, index, 1)])
       IN /\ storeSurface(onLayerRemoved([surfaceState EXCEPT !.imageryLayers = il],
                                         layer, index))
          /\ driver' = [driver EXCEPT
                          !.layerOps = @ + 1,
                          !.notified = notification("layerRemoved", layer, index, index)]
    /\ UNCHANGED commandList
    /\ UNCHANGED <<contentVars, query>>

\* imageryLayers.raise(layer) and lower(layer): the layer changes places
\* with its neighbour at newIndex and the collection raises layerMoved.
moveLayer(layer, newIndex) ==
    /\ ~driver.inFrame
    /\ driver.layerOps < MaxLayerOps
    /\ layer \in Range(imageryLayers._layers)
    /\ LET oldIndex == imageryLayers.layer[layer]._layerIndex
       IN /\ newIndex \in {oldIndex - 1, oldIndex + 1}
          /\ newIndex \in 0..(Len(imageryLayers._layers) - 1)
          /\ LET il == refreshLayers([imageryLayers EXCEPT
                          !._layers = [@ EXCEPT ![oldIndex + 1] =
                                                   imageryLayers._layers[newIndex + 1],
                                                ![newIndex + 1] = layer]])
             IN storeSurface(onLayerMoved([surfaceState EXCEPT !.imageryLayers = il],
                                          layer, newIndex, oldIndex))
          /\ driver' = [driver EXCEPT
                          !.layerOps = @ + 1,
                          !.notified = notification("layerMoved", layer, newIndex, oldIndex)]
    /\ UNCHANGED commandList
    /\ UNCHANGED <<contentVars, query>>

\* The collection raises a second time a notification it raised since the
\* last beginFrame().
notifyAgain ==
    /\ ~driver.inFrame
    /\ \E n \in driver.notified :
         /\ storeSurface(
              CASE n.event = "layerAdded" -> onLayerAdded(surfaceState, n.layer, n.index)
                [] n.event = "layerRemoved" -> onLayerRemoved(surfaceState, n.layer, n.index)
                [] OTHER -> onLayerMoved(surfaceState, n.layer, n.index, n.oldIndex))
         /\ driver' = [driver EXCEPT !.notified = @ \ {n}]
    /\ UNCHANGED commandList
    /\ UNCHANGED <<contentVars, query>>

\* layer.show = show on a layer of the collection: pending until the
\* collection's next _update().
setShow(layer, show) ==
    /\ ~driver.inFrame
    /\ driver.layerOps < MaxLayerOps
    /\ layer \in Range(imageryLayers._layers)
    /\ imageryLayers.layer[layer].show # show
    /\ imageryLayers' = [imageryLayers EXCEPT !.layer[layer].show = show]
    /\ driver' = [driver EXCEPT !.layerOps = @ + 1]
    /\ freedResources' = {}
    /\ UNCHANGED <<provider, tiles, commandList>>
    /\ UNCHANGED <<contentVars, query>>

\* ------------------------------------------------------------ tile queries

\* No question is asked.
NoQuery == [call |-> "none"]

\* SceneMode
SceneModes == {"SCENE2D", "COLUMBUS_VIEW", "SCENE3D", "MORPHING"}

\* The bounding volumes isTileVisible() may test: the tile's 3D sphere, the
\* sphere of its projected rectangle, and the union of both.
BoundingVolumes == {"boundingSphere3D", "boundingSphere2D", "union"}

\* The frame states isTileVisible() is asked under: a mode, and a culling
\* volume that gives every bounding volume a verdict.
InputVisibilityFrameStates ==
    [ mode : SceneModes,
      cullingVolume : [BoundingVolumes -> {"OUTSIDE", "INTERSECTING", "INSIDE"}] ]

\* The surface tiles isTileVisible() is asked about: with an occludee
\* point, or without.
InputVisibilityTiles ==
    [ boundingSphere3D : {"boundingSphere3D"},
      occludeePointInScaledSpace : {Undefined, [point |-> "occludee"]} ]

\* The occluders: the ellipsoid occluder's verdict on the occludee point.
InputOccluders == [ellipsoid : [isScaledSpacePointVisible : BOOLEAN]]

\* isTileVisible(tile, frameState, occluders): the answer, and whether the
\* ellipsoid occluder was asked.
isTileVisibleAnswer_OccluderInAnyMode(surfaceTile, frameState, occluders) ==
    LET boundingVolume ==
          IF frameState.mode # "SCENE3D"
          THEN IF frameState.mode = "MORPHING" THEN "union" ELSE "boundingSphere2D"
          ELSE surfaceTile.boundingSphere3D
    IN IF frameState.cullingVolume[boundingVolume] = "OUTSIDE"
       THEN [visible |-> FALSE, occluderAsked |-> FALSE]
       ELSE IF ~defined(surfaceTile.occludeePointInScaledSpace)
            THEN [visible |-> TRUE, occluderAsked |-> FALSE]
            ELSE [visible |-> occluders.ellipsoid.isScaledSpacePointVisible,
                  occluderAsked |-> TRUE]

isTileVisibleAnswer(surfaceTile, frameState, occluders) ==
    LET boundingVolume ==
          IF frameState.mode # "SCENE3D"
          THEN IF frameState.mode = "MORPHING" THEN "union" ELSE "boundingSphere2D"
          ELSE surfaceTile.boundingSphere3D
    IN IF frameState.cullingVolume[boundingVolume] = "OUTSIDE"
       THEN [visible |-> FALSE, occluderAsked |-> FALSE]
       ELSE IF frameState.mode = "SCENE3D"
            THEN IF ~defined(surfaceTile.occludeePointInScaledSpace)
                 THEN [visible |-> TRUE, occluderAsked |-> FALSE]
                 ELSE [visible |-> occluders.ellipsoid.isScaledSpacePointVisible,
                       occluderAsked |-> TRUE]
            ELSE [visible |-> TRUE, occluderAsked |-> FALSE]

\* The calls of isTileVisible(tile, frameState, occluders) the driver may
\* make, not answered yet.
InputVisibilityQueries ==
    [ call : {"isTileVisible"},
      surfaceTile : InputVisibilityTiles,
      frameState : InputVisibilityFrameStates,
      occluders : InputOccluders,
      answer : {Undefined} ]

\* isTileVisible(tile, frameState, occluders)
isTileVisible ==
    /\ query.call = "isTileVisible"
    /\ ~defined(query.answer)
    /\ query' = [query EXCEPT !.answer =
                   isTileVisibleAnswer(query.surfaceTile, query.frameState,
                                       query.occluders)]
    /\ UNCHANGED <<contentVars, surfaceVars>>

\* new Cartesian3(x, y, z), Cartesian3.subtract and Cartesian3.dot
Cartesian3(x, y, z) == [x |-> x, y |-> y, z |-> z]

subtract(left, right) ==
    Cartesian3(left.x - right.x, left.y - right.y, left.z - right.z)

dot(left, right) == left.x * right.x + left.y * right.y + left.z * right.z

\* Math.sqrt on a whole number: the root if it is whole, else the
\* irrational number named by what it is the root of.
Math_sqrt(n) ==
    IF \E k \in 0..n : k * k = n
    THEN Number(CHOOSE k \in 0..n : k * k = n)
    ELSE [squareRootOf |-> n]

\* frameState.scene2D.projection.project(cartographic): easting, northing
\* and height, on a projection of unit scale.
project(longitude, latitude) == Cartesian3(longitude, latitude, 0)

\* The tiles getDistanceToTile() is asked about, with x up, y east and z
\* north at the tile: a tile between parallel west and east planes, and a
\* tile half the globe wide, whose west and east planes are one plane with
\* one outward normal.
InputDistanceTiles ==
    { [ rectangle |-> [west |-> 0, south |-> 0, east |-> 1, north |-> 1],
        data |-> [ southwestCornerCartesian |-> Cartesian3(0, 0, 0),
                   northeastCornerCartesian |-> Cartesian3(0, 1, 1),
                   westNormal  |-> Cartesian3(0, -1, 0),
                   southNormal |-> Cartesian3(0, 0, -1),
                   eastNormal  |-> Cartesian3(0, 1, 0),
                   northNormal |-> Cartesian3(0, 0, 1),
                   maximumHeight |-> 1 ] ],
      [ rectangle |-> [west |-> 0, south |-> 0, east |-> 2, north |-> 1],
        data |-> [ southwestCornerCartesian |-> Cartesian3(0, 0, 0),
                   northeastCornerCartesian |-> Cartesian3(0, 0, 1),
                   westNormal  |-> Cartesian3(0, -1, 0),
                   southNormal |-> Cartesian3(0, 0, -1),
                   eastNormal  |-> Cartesian3(0, -1, 0),
                   northNormal |-> Cartesian3(0, 0, 1),
                   maximumHeight |-> 1 ] ] }

\* The camera positions: world coordinates, and the height of the
\* cartographic position.
InputCameraPositions ==
    [x : -1..MaxCoordinate, y : (-MaxCoordinate)..MaxCoordinate,
     z : (-MaxCoordinate)..MaxCoordinate]

InputCameraHeights == 0..MaxCoordinate

\* getDistanceToTile(), lines 592-634: the distances of the camera beyond
\* the four bounding planes and above the maximum height.
tileDistances(tile, frameState, cameraCartesianPosition, cameraCartographicPosition) ==
    LET scene3D == frameState.mode = "SCENE3D"
        projectedSouthwest == project(tile.rectangle.west, tile.rectangle.south)
        projectedNortheast == project(tile.rectangle.east, tile.rectangle.north)
        southwestCornerCartesian ==
          IF scene3D THEN tile.data.southwestCornerCartesian
          ELSE Cartesian3(0, projectedSouthwest.x, projectedSouthwest.y)
        northeastCornerCartesian ==
          IF scene3D THEN tile.data.northeastCornerCartesian
          ELSE Cartesian3(0, projectedNortheast.x, projectedNortheast.y)
        westNormal  == IF scene3D THEN tile.data.westNormal  ELSE Cartesian3(0, -1, 0)
        eastNormal  == IF scene3D THEN tile.data.eastNormal  ELSE Cartesian3(0, 1, 0)
        southNormal == IF scene3D THEN tile.data.southNormal ELSE Cartesian3(0, 0, -1)
        northNormal == IF scene3D THEN tile.data.northNormal ELSE Cartesian3(0, 0, 1)
        maximumHeight == IF scene3D THEN tile.data.maximumHeight ELSE 0
        vectorFromSouthwestCorner ==
          subtract(cameraCartesianPosition, southwestCornerCartesian)
        vectorFromNortheastCorner ==
          subtract(cameraCartesianPosition, northeastCornerCartesian)
        cameraHeight == IF scene3D THEN cameraCartographicPosition.height
                        ELSE cameraCartesianPosition.x
    IN [ distanceToWestPlane  |-> dot(vectorFromSouthwestCorner, westNormal),
         distanceToSouthPlane |-> dot(vectorFromSouthwestCorner, southNormal),
         distanceToEastPlane  |-> dot(vectorFromNortheastCorner, eastNormal),
         distanceToNorthPlane |-> dot(vectorFromNortheastCorner, northNormal),
         distanceFromTop      |-> cameraHeight - maximumHeight ]

\* getDistanceToTile(), lines 636-652: the root of the sum of the squared
\* positive distances, one plane an axis.
distanceFrom_EveryPlane(d) ==
    Math_sqrt((IF d.distanceToWestPlane > 0
               THEN d.distanceToWestPlane * d.distanceToWestPlane ELSE 0)
              + (IF d.distanceToEastPlane > 0
                 THEN d.distanceToEastPlane * d.distanceToEastPlane ELSE 0)
              + (IF d.distanceToSouthPlane > 0
                 THEN d.distanceToSouthPlane * d.distanceToSouthPlane ELSE 0)
              + (IF d.distanceToNorthPlane > 0
                 THEN d.distanceToNorthPlane * d.distanceToNorthPlane ELSE 0)
              + (IF d.distanceFromTop > 0
                 THEN d.distanceFromTop * d.distanceFromTop ELSE 0))

distanceFrom(d) ==
    Math_sqrt((IF d.distanceToWestPlane > 0
               THEN d.distanceToWestPlane * d.distanceToWestPlane
               ELSE IF d.distanceToEastPlane > 0
                    THEN d.distanceToEastPlane * d.distanceToEastPlane ELSE 0)
              + (IF d.distanceToSouthPlane > 0
                 THEN d.distanceToSouthPlane * d.distanceToSouthPlane
                 ELSE IF d.distanceToNorthPlane > 0
                      THEN d.distanceToNorthPlane * d.distanceToNorthPlane ELSE 0)
              + (IF d.distanceFromTop > 0
                 THEN d.distanceFromTop * d.distanceFromTop ELSE 0))

\* The calls of getDistanceToTile(tile, frameState,
\* cameraCartesianPosition, cameraCartographicPosition) the driver may
\* make, not answered yet.
InputDistanceQueries ==
    [ call : {"getDistanceToTile"},
      tile : InputDistanceTiles,
      frameState : [mode : SceneModes],
      cameraCartesianPosition : InputCameraPositions,
      cameraCartographicPosition : [height : InputCameraHeights],
      answer : {Undefined} ]

\* getDistanceToTile(tile, frameState, cameraCartesianPosition,
\* cameraCartographicPosition)
getDistanceToTile ==
    /\ query.call = "getDistanceToTile"
    /\ ~defined(query.answer)
    /\ query' = [query EXCEPT !.answer =
                   distanceFrom(tileDistances(query.tile, query.frameState,
                                              query.cameraCartesianPosition,
                                              query.cameraCartographicPosition))]
    /\ UNCHANGED <<contentVars, surfaceVars>>

\* ------------------------------------------------------- specifications

\* The surface provider just constructed, over an empty layer collection
\* and tiles never loaded.
SurfaceUnused ==
    /\ provider = GlobeSurfaceTileProvider
    /\ imageryLayers = ImageryLayerCollection
    /\ tiles = [t \in TileIds |-> QuadtreeTile]
    /\ commandList = <<>>
    /\ freedResources = {}
    /\ driver = Driver(1)

\* One content and one surface provider, just constructed.
Init == ContentUnused /\ SurfaceUnused /\ query = NoQuery

\* The life of one content under the scheduler, the instance collection and
\* the content's driver.
Next ==
    \/ \E admit \in BOOLEAN : request(admit)
    \/ \E d \in DeliveredTiles : deliver(Encode(d))
    \/ \E error \in TransportErrors : deliverFailure(error)
    \/ collectionReady
    \/ \E error \in CollectionErrors : collectionError(error)
    \/ update
    \/ destroy

Spec == Init /\ [][Next]_vars

\* The scheduler settles the promise of every admitted request, with bytes
\* or with a failure, and the instance collection settles its readyPromise.
schedulerSettles ==
    \/ \E d \in DeliveredTiles : deliver(Encode(d))
    \/ \E error \in TransportErrors : deliverFailure(error)

collectionSettles ==
    \/ collectionReady
    \/ \E error \in CollectionErrors : collectionError(error)

\* The life of one content when the scheduler and the instance collection
\* keep their promises: the steps that move its state or settle a promise.
NextLive ==
    \/ \E admit \in BOOLEAN : request(admit)
    \/ schedulerSettles
    \/ collectionSettles
    \/ destroy

SpecLive ==
    /\ Init
    /\ [][NextLive]_vars
    /\ WF_vars(schedulerSettles)
    /\ WF_vars(collectionSettles)

\* The decoder applied directly to the input tiles, on a content just
\* constructed or one that initialize() already ran on once.
DecodeStartTiles ==
    { d \in DeliveredTiles :
        /\ d.gltfFormat = 0 /\ ValidHeader(<<d.magic, d.version, d.gltfFormat>>)
        /\ Len(d.records) = 1 /\ d.declared = 1 /\ d.records[1].batchId = 1 }

InitDecode ==
    /\ \E r \in {[content |-> Instanced3DModel3DTileContentProvider,
                   thrown |-> NoError, created |-> FALSE]}
                 \cup {initialize(Instanced3DModel3DTileContentProvider, Encode(d), 0) :
                         d \in DecodeStartTiles} :
          /\ content = r.content
          /\ pendingCollections = (IF r.created THEN 1 ELSE 0)
    /\ destroyed = FALSE
    /\ inflight = 0
    /\ admitted = 0
    /\ declined = 0
    /\ thrown = NoError
    /\ decodeInput = Undefined
    /\ returned = Undefined
    /\ released = [collection |-> 0, batchTableResources |-> 0]
    /\ allocatedFeatures = 0
    /\ SurfaceUnused
    /\ query = NoQuery

NextDecode ==
    \E d \in DecodeTiles, byteOffset \in InputByteOffsets : initializeCall(d, byteOffset)

SpecDecode == InitDecode /\ [][NextDecode]_vars

\* The feature accessor on a content that initialize() ran on at most
\* twice, with the instance collection's callbacks and destroy().
NextFeatures ==
    \/ \E d \in DecodeTiles, byteOffset \in InputByteOffsets : initializeCall(d, byteOffset)
    \/ collectionReady
    \/ \E error \in CollectionErrors : collectionError(error)
    \/ \E batchId \in InputBatchIds : getFeature(batchId)
    \/ \E name \in InputNames : hasProperty(name)
    \/ destroy

SpecFeatures == InitDecode /\ [][NextFeatures]_vars

\* A layer collection the layers of a sequence were added to, all shown.
collectionOf(layers) ==
    refreshLayers([ImageryLayerCollection EXCEPT !._layers = layers])

\* The tiles loaded under a layer collection: each holds the skeletons of
\* every layer in layer order, those of the layers in readyLayers loaded.
tilesLoadedUnder(il, readyLayers) ==
    [t \in TileIds |->
       LET imagery == prepareNewTile(il, t, il._layers, <<>>)
       IN [ state |-> IF Range(il._layers) \subseteq readyLayers THEN "DONE" ELSE "LOADING",
            isRenderable |-> Range(il._layers) \subseteq readyLayers,
            data |-> [imagery |->
                        [i \in 1..Len(imagery) |->
                           IF imageryOf(imagery[i]).imageryLayer \in readyLayers
                           THEN loadedTileImagery(imagery[i]) ELSE imagery[i]]] ]]

\* The properties an application gave a layer, for the layers it left
\* some default of: a brightness that depends on the imagery tile and a
\* gamma; an alpha that depends on the imagery tile, a contrast and a hue;
\* a layer made transparent, with a saturation.
NoStyle == [l \in {} |-> <<>>]

StyleBrightnessGamma ==
    [ brightness |-> Function(<<1, 2, 1>>), gamma |-> Number(2) ]

StyleAlphaContrastHue ==
    [ alpha |-> Function(<<0, 1, 1>>), contrast |-> Number(2), hue |-> Number(1) ]

StyleTransparent ==
    [ alpha |-> Number(0), saturation |-> Number(2) ]

\* A layer with the properties of a style set.
styledLayer(layer, style) ==
    [f \in DOMAIN layer |-> IF f \in DOMAIN style THEN style[f] ELSE layer[f]]

\* A collection whose layers have the properties of their styles.
styledCollection(il, styles) ==
    [il EXCEPT !.layer =
       [l \in LayerIds |-> IF l \in DOMAIN styles
                           THEN styledLayer(il.layer[l], styles[l])
                           ELSE il.layer[l]]]

\* The layers the frames are rendered under, those whose imagery is
\* loaded (a layer added after the tiles were loaded is still loading),
\* and the properties the application set.
FrameLayers ==
    { [layers |-> <<"A">>, ready |-> {"A"}, styles |-> NoStyle],
      [layers |-> <<"A">>, ready |-> {}, styles |-> NoStyle],
      [layers |-> <<"A", "B">>, ready |-> {"A"}, styles |-> NoStyle],
      [layers |-> <<"B", "A">>, ready |-> {"A"}, styles |-> NoStyle],
      [layers |-> <<"A">>, ready |-> {"A"}, styles |-> [l \in {"A"} |-> StyleBrightnessGamma]],
      [layers |-> <<"A", "B">>, ready |-> {"A", "B"},
       styles |-> [l \in {"A"} |-> StyleAlphaContrastHue]],
      [layers |-> <<"A", "B">>, ready |-> {"A", "B"},
       styles |-> [l \in {"B"} |-> StyleTransparent]] }

\* The provider at the first frame over loaded tiles.
InitFrames ==
    /\ ContentUnused
    /\ query = NoQuery
    /\ provider = GlobeSurfaceTileProvider
    /\ \E cfg \in FrameLayers :
         /\ imageryLayers = styledCollection(collectionOf(cfg.layers), cfg.styles)
         /\ tiles = tilesLoadedUnder(collectionOf(cfg.layers), cfg.ready)
    /\ commandList = <<>>
    /\ freedResources = {}
    /\ \E n \in 1..MaxTextureUnits : driver = Driver(n)

\* The frames of the quadtree driver over loaded tiles.
NextFrames ==
    \/ beginFrame
    \/ \E tile \in TileIds : renderTile(tile)
    \/ \E list \in InputCommandLists : endFrame(list)

SpecFrames == InitFrames /\ [][NextFrames]_vars

\* The provider over one shown layer and two tiles never loaded.
InitLayers ==
    /\ ContentUnused
    /\ query = NoQuery
    /\ provider = GlobeSurfaceTileProvider
    /\ imageryLayers = collectionOf(<<"A">>)
    /\ tiles = [t \in {"t2", "t3"} |-> QuadtreeTile]
    /\ commandList = <<>>
    /\ freedResources = {}
    /\ driver = Driver(1)

\* The application's layer operations between the frames, and the frames
\* in which the driver loads tiles.
NextLayers ==
    \/ \E layer \in LayerIds, index \in 0..2, show \in BOOLEAN : addLayer(layer, index, show)
    \/ \E layer \in LayerIds : removeLayer(layer)
    \/ \E layer \in LayerIds, newIndex \in 0..2 : moveLayer(layer, newIndex)
    \/ \E layer \in LayerIds, show \in BOOLEAN : setShow(layer, show)
    \/ beginFrame
    \/ \E tile \in TileIds : loadTile(tile)
    \/ \E list \in {<<>>} : endFrame(list)

SpecLayers == InitLayers /\ [][NextLayers]_vars

\* The provider over one shown layer and a tile never loaded, under a
\* layer collection that may raise a notification twice.
InitNotify ==
    /\ ContentUnused
    /\ query = NoQuery
    /\ provider = GlobeSurfaceTileProvider
    /\ imageryLayers = collectionOf(<<"A">>)
    /\ tiles = [t \in {"t3"} |-> QuadtreeTile]
    /\ commandList = <<>>
    /\ freedResources = {}
    /\ driver = [Driver(1) EXCEPT !.repeats = TRUE]

NextNotify ==
    \/ \E layer \in LayerIds, index \in 0..2, show \in BOOLEAN : addLayer(layer, index, show)
    \/ \E layer \in LayerIds : removeLayer(layer)
    \/ \E layer \in LayerIds, newIndex \in 0..2 : moveLayer(layer, newIndex)
    \/ notifyAgain
    \/ beginFrame
    \/ \E tile \in TileIds : loadTile(tile)
    \/ \E list \in {<<>>} : endFrame(list)

SpecNotify == InitNotify /\ [][NextNotify]_vars

\* The provider over one shown layer and tiles never loaded, constructed
\* over a terrain provider and an imagery provider that may still be
\* starting, and a caller that loads and renders without asking ready.
InitStarting ==
    /\ ContentUnused
    /\ query = NoQuery
    /\ \E terrain \in BOOLEAN, imagery \in BOOLEAN :
         /\ provider = [GlobeSurfaceTileProvider EXCEPT !._terrainProvider.ready = terrain]
         /\ imageryLayers = [collectionOf(<<"A">>) EXCEPT
                               !.layer["A"].imageryProvider.ready = imagery]
    /\ tiles = [t \in {"t2", "t3"} |-> QuadtreeTile]
    /\ commandList = <<>>
    /\ freedResources = {}
    /\ driver = Driver(1)

NextStarting ==
    \/ terrainProviderReady
    \/ \E layer \in LayerIds : imageryProviderReady(layer)
    \/ beginFrame
    \/ \E tile \in TileIds : loadTile(tile)
    \/ \E tile \in TileIds : renderTile(tile)
    \/ \E list \in {<<>>} : endFrame(list)

SpecStarting == InitStarting /\ [][NextStarting]_vars

\* A question the quadtree driver asks the provider about a tile, and the
\* provider's answer: it changes nothing of the provider.
InitQueries ==
    /\ ContentUnused
    /\ SurfaceUnused
    /\ query \in InputVisibilityQueries \cup InputDistanceQueries

NextQueries ==
    \/ isTileVisible
    \/ getDistanceToTile

SpecQueries == InitQueries /\ [][NextQueries]_vars

\* ---------------------------------------------------------------- claims

\* A step that delivers the bytes of a tile.
DeliverStep == \E d \in DeliveredTiles : deliver(Encode(d))

\* The transitions of section 4.2.
AllowedTransitions ==
    { <<"UNLOADED", "LOADING">>, <<"LOADING", "PROCESSING">>,
      <<"PROCESSING", "READY">>, <<"LOADING", "FAILED">>,
      <<"PROCESSING", "FAILED">> }

\* C1: the state changes only along UNLOADED->LOADING, LOADING->PROCESSING,
\* PROCESSING->READY, LOADING->FAILED and PROCESSING->FAILED, and FAILED is
\* never left.
C1_OnlyAllowedTransitions ==
    [][content'.state # content.state
         => <<content.state, content'.state>> \in AllowedTransitions]_vars

\* C2: once readyPromise is settled, no later attempted transition settles
\* it again or changes its outcome.
C2_ReadyPromiseSettlesOnce ==
    [][content.readyPromise.status # "pending"
         => content'.readyPromise = content.readyPromise]_vars

\* readyPromise was resolved at READY and a later failure then moved the
\* state to FAILED, attempting to reject it.
C2_Witness ==
    /\ content.readyPromise = [status |-> "resolved", value |-> "content"]
    /\ content.state = "FAILED"

\* C3: a delivery of bytes to a destroyed content is discarded: the decoder
\* is not run (no batch-table resources, no instance collection), the state
\* does not become PROCESSING and processingPromise is not resolved; and a
\* destroyed content never enters PROCESSING afterwards.
C3_DestroyedDeliveryDiscarded ==
    [][/\ (destroyed /\ DeliverStep)
            => /\ content'.state # "PROCESSING"
               /\ content'._modelInstanceCollection = content._modelInstanceCollection
               /\ content'._batchTableResources = content._batchTableResources
               /\ content'.processingPromise = content.processingPromise
               /\ pendingCollections' = pendingCollections
       /\ (destroyed /\ content.state # "PROCESSING")
            => content'.state # "PROCESSING"]_vars

\* The content was destroyed while LOADING and its delivery then resolved.
C3_Witness ==
    /\ destroyed
    /\ inflight = 0
    /\ admitted = 1
    /\ content.readyPromise.value = ErrDestroyed
    /\ content.processingPromise.status = "pending"
    /\ content._modelInstanceCollection = Undefined

C5_DeclinedRequestChangesNothing ==
    [][/\ request(FALSE)
            => /\ content' = content
               /\ inflight' = inflight
               /\ pendingCollections' = pendingCollections
       /\ request(TRUE)
            => /\ content' = [content EXCEPT !.state = "LOADING"]
               /\ inflight' = inflight + 1]_vars

\* The scheduler declined a request and the content is as constructed.
C5_Witness ==
    /\ declined > 0
    /\ admitted = 0
    /\ content = Instanced3DModel3DTileContentProvider
    /\ inflight = 0

\* C6: processingPromise is resolved in the step that enters PROCESSING,
\* while the instance collection's readiness is still awaited and
\* readyPromise is untouched; so it is resolved in PROCESSING and in READY.
C6_ProcessingPromiseAtProcessing ==
    /\ [](content.state \in {"PROCESSING", "READY"}
            => content.processingPromise = [status |-> "resolved", value |-> "content"])
    /\ [][(content'.state = "PROCESSING" /\ content.state # "PROCESSING")
            => /\ content'.processingPromise.status = "resolved"
               /\ pendingCollections' = pendingCollections + 1
               /\ content'.readyPromise = content.readyPromise]_vars

\* The content is PROCESSING with processingPromise resolved while its
\* collection has not reported and readyPromise is pending.
C6_Witness ==
    /\ content.state = "PROCESSING"
    /\ content.processingPromise.status = "resolved"
    /\ content.readyPromise.status = "pending"
    /\ pendingCollections = 1

\* Both collaborators of update() are there.
HasCollaborators ==
    /\ content._batchTableResources # Undefined
    /\ content._modelInstanceCollection # Undefined

\* C7 (as claimed): once the state is READY, update() changes nothing and
\* pumps neither collaborator.
C7_UpdateIdleWhenReady ==
    [][(update /\ content.state = "READY") => content' = content]_vars

\* C7 (amended): in PROCESSING and in READY alike, update() on a content
\* that has both collaborators pumps each of them once and changes nothing
\* else of the content.
C7_UpdatePumpsBoth ==
    [][(update /\ content.state \in {"PROCESSING", "READY"} /\ HasCollaborators)
         => /\ content' =
                 [content EXCEPT !._batchTableResources.updates = @ + 1,
                                 !._modelInstanceCollection.updates = @ + 1]
            /\ thrown' = NoError]_vars

\* update() was called more than once on a content that is now READY.
C7_Witness ==
    /\ content.state = "READY"
    /\ HasCollaborators
    /\ content._batchTableResources.updates >= 2
    /\ content._modelInstanceCollection.updates >= 2

\* The errors that correspond to the faults of a tile's header.
HeaderFaults(d) ==
    (IF d.magic # Str_i3dm THEN {ErrMagic} ELSE {})
      \cup (IF d.version # 1 THEN {ErrVersion} ELSE {})
      \cup (IF d.gltfFormat \notin {0, 1} THEN {ErrGltfFormat} ELSE {})

\* C8: initialize() on a tile with a wrong magic, an unsupported version or
\* a glTF format outside {0, 1} throws a corresponding error and leaves the
\* content, and the continuations registered, as they were.
C8_BadHeaderNoMutation ==
    [][(decodeInput' # Undefined /\ HeaderFaults(decodeInput'.tile) # {})
         => /\ thrown' \in HeaderFaults(decodeInput'.tile)
            /\ content' = content
            /\ pendingCollections' = pendingCollections]_vars

\* initialize() threw on a tile whose only fault is its glTF format, called
\* on a content that a first initialize() had brought to PROCESSING.
C8_Witness ==
    /\ decodeInput # Undefined
    /\ thrown = ErrGltfFormat
    /\ content.state = "PROCESSING"
    /\ content._modelInstanceCollection # Undefined

\* C9: bytes that fail to decode, delivered to a content that is not
\* destroyed, end in FAILED with readyPromise rejected with the decoder's
\* error, and the exception does not escape the continuation.
C9_DecodeFailureRejectsReadyPromise ==
    [][\A d \in DeliveredTiles :
         (/\ ~destroyed
          /\ deliver(Encode(d))
          /\ initialize(content, Encode(d), 0).thrown # NoError)
            => /\ content'.state = "FAILED"
               /\ content'.readyPromise =
                    [status |-> "rejected",
                     value |-> initialize(content, Encode(d), 0).thrown]
               /\ thrown' = NoError]_vars

\* The instances a tile's bytes hold, read at the positions of the layout:
\* record i (from 0) starts recordLength bytes after record i - 1.
ExpectedInstances(d, byteOffset) ==
    LET buffer == Padding(byteOffset) \o Encode(d)
        hasBatchTable == Len(d.batchTable) > 0
        recordLength == IF hasBatchTable THEN 18 ELSE 16
        start == byteOffset + 28 + Len(d.batchTable) + Len(d.gltf)
    IN [ i \in 1..d.declared |->
           LET at == start + (i - 1) * recordLength
           IN [ modelMatrix |-> <<"ENU", SubSeq(buffer, at + 1, at + 8),
                                  SubSeq(buffer, at + 9, at + 16), 0>>,
                batchId |-> IF hasBatchTable
                            THEN buffer[at + 17] + 256 * buffer[at + 18]
                            ELSE i - 1 ] ]

\* C10: a successful decode of a tile declaring N instances yields N
\* instances in record order, read from 16-byte records with batchId i
\* without a batch table and from 18-byte records with the stored 2-byte
\* batch id with one; they are the records the tile was built from.
C10_InstancesInRecordOrder ==
    (decodeInput # Undefined /\ thrown = NoError)
      => LET d == decodeInput.tile
             instances == content._modelInstanceCollection.instances
         IN /\ Len(instances) = d.declared
            /\ content._modelInstanceCollection.length = d.declared
            /\ instances = ExpectedInstances(d, decodeInput.byteOffset)
            /\ \A i \in 1..Len(instances) :
                 /\ instances[i].modelMatrix =
                      <<"ENU", d.records[i].longitude, d.records[i].latitude, 0>>
                 /\ instances[i].batchId =
                      IF d.batchTable = <<>> THEN i - 1 ELSE d.records[i].batchId

\* A tile with a batch table and two records was decoded: the second
\* instance carries the stored batch id 258.
C10_Witness ==
    /\ decodeInput # Undefined
    /\ thrown = NoError
    /\ decodeInput.tile.batchTable # <<>>
    /\ Len(content._modelInstanceCollection.instances) = 2
    /\ content._modelInstanceCollection.instances[1].batchId = 1
    /\ content._modelInstanceCollection.instances[2].batchId = 258

\* C11: after a successful decode, with or without a batch table, every
\* instance's batchId lies in 0..instanceCount-1.
C11_BatchIdsWithinInstanceCount ==
    (decodeInput # Undefined /\ thrown = NoError)
      => LET collection == content._modelInstanceCollection
         IN \A i \in 1..Len(collection.instances) :
              collection.instances[i].batchId \in 0..(collection.length - 1)

\* A step that calls getFeature() with a batchId of 0..instanceCount-1.
InRangeGetFeatureStep ==
    /\ defined(content._modelInstanceCollection)
    /\ \E n \in 0..(content._modelInstanceCollection.length - 1) :
         getFeature(Number(n))

\* C12: getFeature is idempotent.  A call with a batchId of
\* 0..instanceCount-1 returns the handle the feature array holds at that
\* index, the same at every call; the array is built by the first such
\* call, has as many features as there are instances, holds at index i the
\* feature of batch id i, and once built is not changed by any operation.
C12_FeaturesBuiltOnceOneToOne ==
    /\ [](defined(content._features) /\ defined(content._modelInstanceCollection)
            => /\ Len(content._features.items) = content._modelInstanceCollection.length
               /\ \A i \in 1..Len(content._features.items) :
                    content._features.items[i].batchId = i - 1)
    /\ [][defined(content._features) => content'._features = content._features]_vars
    /\ [][InRangeGetFeatureStep
            => /\ thrown' = NoError
               /\ defined(content'._features)
               /\ defined(returned')
               /\ \E i \in 1..Len(content'._features.items) :
                    /\ returned' = [feature |-> content'._features.items[i]]
                    /\ getFeature(Number(i - 1))]_vars

\* batchId is undefined, negative, or at least the instance count n.
OutOfRange(batchId, n) ==
    ~defined(batchId) \/ batchId.number < 0 \/ batchId.number >= n

\* C13: on a content that holds an instance collection, getFeature(batchId)
\* with batchId undefined, negative or >= the instance count throws the
\* DeveloperError, returns nothing and leaves the content, with its feature
\* array built or not, as it was; with 0 instances every call is rejected
\* so and no call builds the array.
C13_OutOfRangeRejected ==
    [][\A batchId \in InputBatchIds :
         (/\ defined(content._modelInstanceCollection)
          /\ getFeature(batchId)
          /\ \/ OutOfRange(batchId, content._modelInstanceCollection.length)
             \/ content._modelInstanceCollection.length = 0)
           => /\ thrown' = ErrBatchId
              /\ returned' = Undefined
              /\ content' = content
              /\ allocatedFeatures' = allocatedFeatures]_vars

\* getFeature() was just rejected on a content decoded with 0 instances,
\* whose feature array is unbuilt.
C13_Witness ==
    /\ thrown = ErrBatchId
    /\ defined(content._modelInstanceCollection)
    /\ content._modelInstanceCollection.length = 0
    /\ ~defined(content._features)

\* C14: hasProperty(name) on a content that holds batch-table resources
\* returns whether the parsed batch table has a property of that name, also
\* while no feature has been built; the call changes nothing of the
\* content: not the feature array, the state or the two notifications.
C14_HasPropertyReadsBatchTable ==
    [][\A name \in InputNames :
         (hasProperty(name) /\ defined(content._batchTableResources))
           => /\ thrown' = NoError
              /\ returned' =
                   [answer |->
                      /\ defined(content._batchTableResources.batchTable)
                      /\ name \in content._batchTableResources.batchTable.properties]
              /\ content'._features = content._features
              /\ content'.state = content.state
              /\ content'.processingPromise = content.processingPromise
              /\ content'.readyPromise = content.readyPromise
              /\ content' = content
              /\ allocatedFeatures' = allocatedFeatures]_vars

\* hasProperty() just answered true on a content with instances whose
\* feature array is unbuilt.
C14_Witness ==
    /\ returned = [answer |-> TRUE]
    /\ thrown = NoError
    /\ defined(content._modelInstanceCollection)
    /\ content._modelInstanceCollection.length > 0
    /\ ~defined(content._features)

\* C15: destruction is idempotent.  destroy() releases each collaborator
\* the content holds, once, and lets go of it; over the life of a content
\* no more than one instance collection and one batch-table resources
\* object are released; a destroy() on a destroyed content releases
\* nothing and raises no error.
C15_DestroyReleasesOnce ==
    /\ [](released.collection <= 1 /\ released.batchTableResources <= 1)
    /\ [][destroy
            => /\ thrown' = NoError
               /\ ~defined(content'._modelInstanceCollection)
               /\ ~defined(content'._batchTableResources)
               /\ released'.collection = released.collection
                    + (IF defined(content._modelInstanceCollection) THEN 1 ELSE 0)
               /\ released'.batchTableResources = released.batchTableResources
                    + (IF defined(content._batchTableResources) THEN 1 ELSE 0)
               /\ destroyed => released' = released]_vars

\* Both collaborators were released, and a delivery arrived after the
\* destruction: any further destroy() acts on a destroyed content.
C15_Witness ==
    /\ destroyed
    /\ released = [collection |-> 1, batchTableResources |-> 1]
    /\ content.state = "FAILED"
    /\ content.readyPromise.value = ErrDestroyed

\* C16: the draw-command pool never shrinks and is sized to the high-water
\* mark.  No step shortens the pool, and the uniform maps are as many as
\* the commands; beginFrame() leaves the pool as it is and resets the used
\* count; after any step the pool is as long as the larger of its old
\* length and the used count, so a pair is allocated only for a claim the
\* pool cannot serve; and when the first three frames claimed 2, 5 and 1
\* commands, they allocated 2, 3 and 0 and left a pool of length 5.
C16_PoolNeverShrinks ==
    /\ [](/\ Len(provider._uniformMaps) = Len(provider._drawCommands)
          /\ provider._usedDrawCommands <= Len(provider._drawCommands))
    /\ [][/\ Len(provider'._drawCommands) =
                 (IF provider'._usedDrawCommands > Len(provider._drawCommands)
                  THEN provider'._usedDrawCommands
                  ELSE Len(provider._drawCommands))
            /\ (~driver.inFrame /\ driver'.inFrame)
                 => /\ provider'._usedDrawCommands = 0
                    /\ provider'._drawCommands = provider._drawCommands
                    /\ provider'._uniformMaps = provider._uniformMaps]_vars
    /\ []((Len(driver.claimed) >= 3 /\ SubSeq(driver.claimed, 1, 3) = <<2, 5, 1>>)
            => /\ SubSeq(driver.allocated, 1, 3) = <<2, 3, 0>>
               /\ Len(provider._drawCommands) >= 5
               /\ (Len(driver.claimed) = 3 /\ ~driver.inFrame)
                    => Len(provider._drawCommands) = 5)

\* Three frames have ended that claimed 2, 5 and 1 commands.
C16_Witness ==
    /\ driver.claimed = <<2, 5, 1>>
    /\ ~driver.inFrame

\* C17: endFrame() appends to the command list it is handed exactly the
\* commands renderTile() claimed since the frame's beginFrame(), each once:
\* the list keeps what it held, and what follows is as long as the claims
\* of the frame and holds each of them; these are the pooled commands
\* below the used count, so none at or above it is appended.
C17_EndFrameAppendsClaimed ==
    [][(driver.inFrame /\ ~driver'.inFrame)
         => \E list \in InputCommandLists :
              LET appended == SubSeq(commandList', Len(list) + 1, Len(commandList'))
              IN /\ Len(commandList') >= Len(list)
                 /\ SubSeq(commandList', 1, Len(list)) = list
                 /\ Len(appended) = Len(driver.claimedCommands)
                 /\ Range(appended) = Range(driver.claimedCommands)
                 /\ Range(appended) = 0..(provider._usedDrawCommands - 1)]_vars

\* A frame has ended that claimed fewer commands than the pool holds from
\* an earlier frame, and its commands follow the one the list held.
C17_Witness ==
    /\ ~driver.inFrame
    /\ Len(driver.claimed) >= 2
    /\ provider._usedDrawCommands > 0
    /\ provider._usedDrawCommands < Len(provider._drawCommands)
    /\ Len(commandList) = provider._usedDrawCommands + 1
    /\ Head(commandList) = -1

\* C18: renderTile() emits one draw command per group of at most
\* maximumTextureImageUnits day textures.  Of the commands a renderTile()
\* claims, none carries more textures than the budget, in its uniform map
\* or in the count its shader is made for, and each is owned by the tile;
\* at least one is claimed; a tile with no more imagery than the budget
\* gets exactly one, so more than one means imagery beyond the budget.
C18_OneCommandPerTextureGroup ==
    [][(driver.inFrame /\ driver'.inFrame
          /\ driver'.lastRendered # driver.lastRendered)
         => LET tile == CHOOSE t \in TileIds : tileOrder[t] = driver'.lastRendered
                budget == driver.context.maximumTextureImageUnits
                imageryLen == Len(tiles[tile].data.imagery)
                first == provider._usedDrawCommands
                emitted == provider'._usedDrawCommands - first
            IN /\ emitted >= 1
               /\ \A k \in (first + 1)..(first + emitted) :
                     /\ Len(provider'._uniformMaps[k].dayTextures) <= budget
                     /\ provider'._drawCommands[k].shaderProgram.numberOfDayTextures
                          = Len(provider'._uniformMaps[k].dayTextures)
                     /\ provider'._drawCommands[k].owner = tile
               /\ imageryLen <= budget => emitted = 1
               /\ emitted > 1 => imageryLen > budget]_vars

\* A tile of three ready imagery entries was just rendered under a budget
\* of two textures, in two commands of two textures and of one.
C18_Witness ==
    /\ driver.inFrame
    /\ driver.lastRendered = tileOrder["t1"]
    /\ driver.context.maximumTextureImageUnits = 2
    /\ provider._usedDrawCommands = 2
    /\ Len(provider._uniformMaps[1].dayTextures) = 2
    /\ Len(provider._uniformMaps[2].dayTextures) = 1

\* The layers the TileImagerys of a list belong to.
layersOfImagery(tileImageryCollection) ==
    {imageryOf(tileImageryCollection[i]).imageryLayer :
       i \in 1..Len(tileImageryCollection)}

\* The list is in ascending order of layer index.
sortedByLayerIndex(il, tileImageryCollection) ==
    \A i \in 1..(Len(tileImageryCollection) - 1) :
       layerIndexOf(il, tileImageryCollection[i])
         <= layerIndexOf(il, tileImageryCollection[i + 1])

\* C19: when a layer L is removed from the collection, on every loaded
\* tile whose imagery list holds TileImagerys of three distinct layers of
\* the collection and is sorted by layer index, _onLayerRemoved(L) takes
\* exactly the TileImagerys of L out of the list, frees the resources of
\* exactly those, and leaves those of the other two layers in the order
\* they were in.
C19_RemovalDeletesLayerRun ==
    [][\A L \in LayerIds :
         (L \in Range(imageryLayers._layers) /\ L \notin Range(imageryLayers'._layers))
           => \A t \in loadedTiles(tiles) :
                LET list == tiles[t].data.imagery
                IN (/\ Cardinality(layersOfImagery(list)) = 3
                    /\ layersOfImagery(list) \subseteq Range(imageryLayers._layers)
                    /\ sortedByLayerIndex(imageryLayers, list))
                     => /\ tiles'[t].data.imagery =
                             SelectSeq(list, LAMBDA e : imageryOf(e).imageryLayer # L)
                        /\ {e \in freedResources' : imageryOf(e).tile = t} =
                             {e \in Range(list) : imageryOf(e).imageryLayer = L}]_vars

\* Layer C was just removed from a tile that holds the loaded imagery of
\* layer A after the skeletons of layer B: the tile was loaded under A, B
\* and C were added below A afterwards, their skeletons appended behind
\* those of A, and a beginFrame() sorted the list.
C19_Witness ==
    /\ imageryLayers._layers = <<"B", "A">>
    /\ tiles["t2"].data = [imagery |->
          << TileImagery("t2", "B", 1), TileImagery("t2", "B", 2),
             loadedTileImagery(TileImagery("t2", "A", 1)),
             loadedTileImagery(TileImagery("t2", "A", 2)) >>]
    /\ {e \in freedResources : imageryOf(e).tile = "t2"} =
         {TileImagery("t2", "C", 1), TileImagery("t2", "C", 2)}

\* C20: beginFrame() leaves the imagery list of every loaded tile in
\* ascending order of layer index and the order-changed flag cleared,
\* whatever layers were added, shown or moved since the beginFrame()
\* before; the pending show changes are resolved before the flag is
\* tested, so the skeletons of a layer shown in this resolution are sorted
\* in the same beginFrame().
C20_BeginFrameSortsImagery ==
    [][(~driver.inFrame /\ driver'.inFrame)
         => /\ ~provider'._layerOrderChanged
            /\ \A t \in loadedTiles(tiles') :
                  sortedByLayerIndex(imageryLayers', tiles'[t].data.imagery)]_vars

\* A frame has begun after layer B, added hidden below A, was shown: the
\* tile loaded under A holds the skeletons of B before the imagery of A.
C20_Witness ==
    /\ driver.inFrame
    /\ driver.frames = 2
    /\ driver.layerOps = 2
    /\ imageryLayers._layers = <<"B", "A">>
    /\ ~provider._layerOrderChanged
    /\ tiles["t2"].data = [imagery |->
          << TileImagery("t2", "B", 1), TileImagery("t2", "B", 2),
             loadedTileImagery(TileImagery("t2", "A", 1)),
             loadedTileImagery(TileImagery("t2", "A", 2)) >>]

\* Layer L enters the collection in this step.
LayerAddedStep(L) ==
    L \notin Range(imageryLayers._layers) /\ L \in Range(imageryLayers'._layers)

LayerRemovedStep(L) ==
    L \in Range(imageryLayers._layers) /\ L \notin Range(imageryLayers'._layers)

\* C22: when the layer removed is the base layer, every loaded tile is
\* left not renderable; when it is not the base layer, every tile keeps
\* the isRenderable it had; the tiles never loaded keep theirs too.
C22_BaseLayerRemovalUnrenders ==
    [][\A L \in LayerIds :
         LayerRemovedStep(L)
           => \A t \in DOMAIN tiles :
                tiles'[t].isRenderable =
                  IF imageryLayers.layer[L]._isBaseLayer /\ t \in loadedTiles(tiles)
                  THEN FALSE
                  ELSE tiles[t].isRenderable]_vars

\* The base layer A was just removed from under layer B: a tile that was
\* loaded, and renderable, is no longer renderable.
C22_Witness ==
    /\ ~driver.inFrame
    /\ imageryLayers._layers = <<"B">>
    /\ freedResources # {}
    /\ tiles["t2"].state = "DONE"
    /\ ~tiles["t2"].isRenderable
    /\ layersOfImagery(tiles["t2"].data.imagery) = {"B"}

\* The collection raises a notification again in this step.
NotifiedAgainStep ==
    /\ driver'.notified # driver.notified
    /\ driver'.notified \subseteq driver.notified
    /\ ~driver'.inFrame

\* C23: a notification raised a second time before the next beginFrame()
\* changes nothing: the order-changed flag and the imagery list of every
\* loaded tile are what the first notification left.
C23_HandlersIdempotent ==
    [][NotifiedAgainStep
         => /\ provider'._layerOrderChanged = provider._layerOrderChanged
            /\ \A t \in loadedTiles(tiles) :
                  tiles'[t].data.imagery = tiles[t].data.imagery]_vars

\* C27: right after _onLayerRemoved(L) has run, because L left the
\* collection or because a beginFrame() resolved the hiding of L, no
\* loaded tile's imagery list holds a TileImagery of L, whether or not
\* the list was sorted since TileImagerys were last added to it.
C27_RemovedLayerLeavesNoImagery ==
    [][\A L \in LayerIds :
         (\/ LayerRemovedStep(L)
          \/ /\ ~driver.inFrame /\ driver'.inFrame
             /\ L \in Range(imageryLayers._layers)
             /\ imageryLayers.layer[L]._show /\ ~imageryLayers.layer[L].show)
           => \A t \in loadedTiles(tiles') :
                L \notin layersOfImagery(tiles'[t].data.imagery)]_vars

\* The bounding volume isTileVisible() has to test under a mode.
applicableVolume(mode) ==
    CASE mode = "SCENE3D" -> "boundingSphere3D"
      [] mode = "MORPHING" -> "union"
      [] OTHER -> "boundingSphere2D"

\* C24: isTileVisible() answers false when the bounding volume that
\* applies is outside the culling volume; otherwise in 3D mode it answers
\* what the ellipsoid occluder says of the tile's occludee point, or true
\* when the tile has none, and in the other modes it answers true; in the
\* other modes the occluder is never asked.
C24_TileVisibility ==
    (query.call = "isTileVisible" /\ defined(query.answer))
      => LET mode == query.frameState.mode
             outside == query.frameState.cullingVolume[applicableVolume(mode)] = "OUTSIDE"
             occludee == query.surfaceTile.occludeePointInScaledSpace
         IN /\ outside => ~query.answer.visible
            /\ (~outside /\ mode = "SCENE3D")
                 => query.answer.visible =
                      (IF defined(occludee)
                       THEN query.occluders.ellipsoid.isScaledSpacePointVisible
                       ELSE TRUE)
            /\ (~outside /\ mode # "SCENE3D") => query.answer.visible
            /\ mode # "SCENE3D" => ~query.answer.occluderAsked

\* In Columbus view a tile whose projected sphere is in the culling volume,
\* and whose occludee point the occluder would hide, was answered visible
\* though its 3D sphere is outside.
C24_Witness ==
    /\ query.call = "isTileVisible"
    /\ query.frameState.mode = "COLUMBUS_VIEW"
    /\ query.frameState.cullingVolume["boundingSphere2D"] = "INTERSECTING"
    /\ query.frameState.cullingVolume["boundingSphere3D"] = "OUTSIDE"
    /\ defined(query.surfaceTile.occludeePointInScaledSpace)
    /\ ~query.occluders.ellipsoid.isScaledSpacePointVisible
    /\ query.answer = [visible |-> TRUE, occluderAsked |-> FALSE]

\* The square of a distance getDistanceToTile() answered.
squared(distance) ==
    IF "number" \in DOMAIN distance THEN distance.number * distance.number
    ELSE distance.squareRootOf

\* The distance counted; none if the camera is not beyond.
excess(distance) == IF distance > 0 THEN distance ELSE 0

\* C25: getDistanceToTile() answers 0 when the camera is beyond no
\* bounding plane and not above the maximum height; it answers dx when the
\* camera is dx beyond exactly one plane, or above the maximum height, and
\* nothing else is exceeded; and the square of its answer is the sum of the
\* squares of the excess on the west/east axis (beyond the west plane, or
\* else beyond the east plane), on the south/north axis and above the
\* maximum height.
C25_DistanceIsNormOfExcesses ==
    (query.call = "getDistanceToTile" /\ defined(query.answer))
      => LET d == tileDistances(query.tile, query.frameState,
                                query.cameraCartesianPosition,
                                query.cameraCartographicPosition)
             all == <<d.distanceToWestPlane, d.distanceToEastPlane,
                      d.distanceToSouthPlane, d.distanceToNorthPlane,
                      d.distanceFromTop>>
             exceeded == {i \in 1..5 : all[i] > 0}
             westEast == IF d.distanceToWestPlane > 0 THEN d.distanceToWestPlane
                         ELSE excess(d.distanceToEastPlane)
             southNorth == IF d.distanceToSouthPlane > 0 THEN d.distanceToSouthPlane
                           ELSE excess(d.distanceToNorthPlane)
             top == excess(d.distanceFromTop)
         IN /\ exceeded = {} => query.answer = Number(0)
            /\ \A i \in 1..5 : exceeded = {i} => query.answer = Number(all[i])
            /\ squared(query.answer)
                 = westEast * westEast + southNorth * southNorth + top * top

\* In 3D the camera was 2 beyond the west plane of the tile between
\* parallel planes, exceeding nothing else, and the answer was 2.
C25_Witness ==
    /\ query.call = "getDistanceToTile"
    /\ query.frameState.mode = "SCENE3D"
    /\ query.tile.rectangle.east = 1
    /\ query.cameraCartesianPosition = Cartesian3(0, -2, 1)
    /\ query.cameraCartographicPosition.height = 1
    /\ query.answer = Number(2)

\* C26: a call of loadTile() or renderTile() while the provider is not
\* ready leaves the tile and the provider's draw-command pool, used count
\* and lists by texture count unchanged (the call raises a DeveloperError
\* instead of working).
C26_NotReadyCallsChangeNothing ==
    [][(/\ ~ready(provider, imageryLayers)
        /\ \E tile \in TileIds : loadTile(tile) \/ renderTile(tile))
         => /\ tiles' = tiles
            /\ provider'._drawCommands = provider._drawCommands
            /\ provider'._usedDrawCommands = provider._usedDrawCommands
            /\ provider'._tilesToRenderByTextureCount
                 = provider._tilesToRenderByTextureCount]_vars


\* C29: in every state of a content, readyPromise is resolved with the
\* content exactly when the state is READY and rejected exactly when the
\* state is FAILED; in UNLOADED, LOADING and PROCESSING it is pending.
C29_ReadyPromiseTracksState ==
    /\ content.readyPromise = [status |-> "resolved", value |-> "content"]
         <=> content.state = "READY"
    /\ content.readyPromise.status = "rejected" <=> content.state = "FAILED"
    /\ content.state \in {"UNLOADED", "LOADING", "PROCESSING"}
         => content.readyPromise.status = "pending"

\* C30: once destroy() was called on a content in PROCESSING, a report of
\* the instance collection, of readiness or of an error, changes neither
\* the content's state nor its readyPromise.
C30_DestroyedContentIgnoresCollection ==
    [][(destroyed /\ content.state = "PROCESSING" /\ collectionSettles)
         => /\ content'.state = content.state
            /\ content'.readyPromise = content.readyPromise]_vars


\* The content reached its terminal outcome: READY or FAILED, with
\* readyPromise settled.
terminalOutcome ==
    /\ content.state \in {"READY", "FAILED"}
    /\ content.readyPromise.status # "pending"

\* C28: when the scheduler settles every admitted request and the
\* instance collection settles its readyPromise, a content whose request
\* was admitted eventually is READY or FAILED with readyPromise settled,
\* also when destroy() is called in between.
C28_AdmittedContentSettles ==
    (admitted > 0) ~> terminalOutcome

\* Every admitted request of a content destroyed on the way was settled,
\* and the content is READY with readyPromise resolved.
C28_Witness ==
    /\ destroyed
    /\ admitted > 0
    /\ inflight = 0
    /\ pendingCollections = 0
    /\ content.state = "READY"
    /\ content.readyPromise = [status |-> "resolved", value |-> "content"]


\* A step of renderTile(), and the tile it rendered.
RenderTileStep ==
    driver.inFrame /\ driver'.inFrame /\ driver'.lastRendered # driver.lastRendered

renderedTile == CHOOSE t \in TileIds : tileOrder[t] = driver'.lastRendered

\* An imagery entry renderTile() takes a texture from: its ready imagery is
\* defined and READY, and the layer's alpha is not 0.
renderable(il, tileImagery) ==
    /\ defined(tileImagery.readyImagery)
    /\ tileImagery.readyImagery.state = "READY"
    /\ il.layer[tileImagery.readyImagery.imageryLayer].alpha # Number(0)

\* The textures of the renderable entries of an imagery list, in list
\* order.
RECURSIVE renderableTextures(_, _)
renderableTextures(il, tileImageryCollection) ==
    IF tileImageryCollection = <<>> THEN <<>>
    ELSE LET tileImagery == Head(tileImageryCollection)
             imagery == tileImagery.readyImagery
         IN (IF renderable(il, tileImagery)
             THEN <<(<<imagery.tile, imagery.imageryLayer, imagery.x>>)>>
             ELSE <<>>)
              \o renderableTextures(il, Tail(tileImageryCollection))

\* The day textures of the uniform maps first + 1 .. last, one after the
\* other.
RECURSIVE texturesOfCommands(_, _, _)
texturesOfCommands(uniformMaps, first, last) ==
    IF first >= last THEN <<>>
    ELSE uniformMaps[first + 1].dayTextures
           \o texturesOfCommands(uniformMaps, first + 1, last)

\* C31: the day textures of the commands one renderTile() emits, taken
\* command after command, are the textures of the tile's renderable
\* imagery entries in list order, each once; an entry that is not
\* renderable gives none.
C31_RenderableEntriesOnceInOrder ==
    [][RenderTileStep
         => texturesOfCommands(provider'._uniformMaps, provider._usedDrawCommands,
                               provider'._usedDrawCommands)
              = renderableTextures(imageryLayers, tiles[renderedTile].data.imagery)]_vars

\* A tile whose first three entries are ready and whose last three are
\* still loading was rendered under a budget of two textures: the commands
\* carry the three ready textures, two and one.
C31_Witness ==
    /\ driver.inFrame
    /\ driver.lastRendered = tileOrder["t1"]
    /\ driver.context.maximumTextureImageUnits = 2
    /\ Len(tiles["t1"].data.imagery) = 6
    /\ \A i \in 1..6 : renderable(imageryLayers, tiles["t1"].data.imagery[i]) <=> i <= 3
    /\ provider._usedDrawCommands >= 2
    /\ provider._uniformMaps[1].dayTextures = <<(<<"t1", "A", 1>>), (<<"t1", "A", 2>>)>>
    /\ provider._uniformMaps[2].dayTextures = <<(<<"t1", "A", 3>>)>>

\* C32: a command renderTile() emits has no day texture only if the tile
\* has no renderable imagery entry, and then it is the only command; a
\* tile with a renderable entry gets no command without a day texture.
C32_ZeroTextureOnlyWithoutImagery ==
    [][RenderTileStep
         => LET first == provider._usedDrawCommands
                last == provider'._usedDrawCommands
                textures == renderableTextures(imageryLayers,
                                               tiles[renderedTile].data.imagery)
            IN \A k \in (first + 1)..last :
                  provider'._uniformMaps[k].dayTextures = <<>>
                    => (textures = <<>> /\ last = first + 1)]_vars

\* The number of commands in the lists by texture count.
RECURSIVE commandsHeld(_, _)
commandsHeld(lists, i) ==
    IF i > Len(lists) THEN 0
    ELSE (IF defined(lists[i]) THEN Len(lists[i].items) ELSE 0)
           + commandsHeld(lists, i + 1)

\* C33: the draw commands and the uniform maps are as many, the used
\* count is between 0 and their number, and the lists by texture count
\* hold as many commands as are used.
C33_PoolAndListsAgree ==
    /\ Len(provider._drawCommands) = Len(provider._uniformMaps)
    /\ provider._usedDrawCommands >= 0
    /\ provider._usedDrawCommands <= Len(provider._drawCommands)
    /\ commandsHeld(provider._tilesToRenderByTextureCount, 1)
         = provider._usedDrawCommands

\* In a later frame two commands of a pool of more are in use, both in the
\* list of one texture count.
C33_Witness ==
    /\ driver.frames >= 2
    /\ driver.inFrame
    /\ provider._usedDrawCommands = 2
    /\ Len(provider._drawCommands) > 2
    /\ \E i \in 1..Len(provider._tilesToRenderByTextureCount) :
         /\ defined(provider._tilesToRenderByTextureCount[i])
         /\ Len(provider._tilesToRenderByTextureCount[i].items) = 2


\* C34: an initialize() that fails parsing the batch-table JSON leaves
\* the content as it was before the call: _batchTableResources and
\* _modelInstanceCollection as they were (unset on a content just
\* constructed), the state not changed to PROCESSING and processingPromise
\* not resolved by the call.
C34_BadBatchTableNoMutation ==
    [][(decodeInput = Undefined /\ decodeInput' # Undefined /\ thrown' = ErrSyntax)
         => content' = content]_vars


\* Some texture of a group has a value of the property, a number or what
\* the layer's function returns for the texture, other than the default.
deviates(il, dayTextures, property, default) ==
    \E i \in 1..Len(dayTextures) :
       LET value == il.layer[dayTextures[i][2]][property]
           x == dayTextures[i][3]
       IN (IF "function" \in DOMAIN value THEN value.function[x] ELSE value.number)
            # default

\* C35: for every command a renderTile() emits, each of the alpha,
\* brightness, contrast, hue, saturation and gamma flags its shader was
\* selected with is true exactly when some texture of that command's own
\* group has a value of the property other than the default (1 for
\* alpha); what an earlier group or tile had does not count.
C35_FlagsOfOwnGroup ==
    [][RenderTileStep
         => \A k \in (provider._usedDrawCommands + 1)..provider'._usedDrawCommands :
               LET group == provider'._uniformMaps[k].dayTextures
                   shader == provider'._drawCommands[k].shaderProgram
               IN /\ shader.applyAlpha = deviates(imageryLayers, group, "alpha", 1)
                  /\ shader.applyBrightness
                       = deviates(imageryLayers, group, "brightness", DEFAULT_BRIGHTNESS)
                  /\ shader.applyContrast
                       = deviates(imageryLayers, group, "contrast", DEFAULT_CONTRAST)
                  /\ shader.applyHue = deviates(imageryLayers, group, "hue", DEFAULT_HUE)
                  /\ shader.applySaturation
                       = deviates(imageryLayers, group, "saturation", DEFAULT_SATURATION)
                  /\ shader.applyGamma
                       = deviates(imageryLayers, group, "gamma", DEFAULT_GAMMA)]_vars

\* Under a budget of one texture a tile of three textures of a layer
\* whose brightness is not the default for the second texture only, and
\* whose gamma is not the default, was rendered in three commands: the
\* brightness flag is set for the second alone, the gamma flag for all,
\* no other flag for any.
C35_Witness ==
    /\ driver.inFrame
    /\ driver.lastRendered = tileOrder["t1"]
    /\ driver.context.maximumTextureImageUnits = 1
    /\ imageryLayers.layer["A"].brightness = Function(<<1, 2, 1>>)
    /\ provider._usedDrawCommands = 3
    /\ \A k \in 1..3 :
         /\ provider._uniformMaps[k].dayTextures = <<(<<"t1", "A", k>>)>>
         /\ provider._drawCommands[k].shaderProgram
              = getShaderProgram(1, [noAdjustment EXCEPT !.applyBrightness = (k = 2),
                                                         !.applyGamma = TRUE])


====
